---------------------------- MODULE Spec2Model ----------------------------
(***************************************************************************)
(* Binary search tree and red-black tree of CLRS (yehuihe/CLRS),           *)
(* data_structures/tree.  Nodes are heap objects with the fields key,      *)
(* left, right, p (and color for the red-black tree); the tree object      *)
(* holds _root and _n.  Every operation of the classes is an operator on   *)
(* a record of these fields, and an action applies one whole call.         *)
(* The array-based Stack and Queue of data_structures (the stack is what   *)
(* the iterative walk uses) are modelled the same way.                     *)
(***************************************************************************)
EXTENDS Integers, Sequences, FiniteSets, TLC

\* ------------------------------------------------------------- bounds
\* Node objects a client constructs in one run (BinarySearchTree runs).
MaxNodes == 4
\* Node objects a client constructs in one run (RedBlackTree runs).
MaxRbNodes == 5
\* Keys are the integers 1..MaxKey.
MaxKey == 3

\* ---------------------------------------------------------- constants
\* Python's None.
None == -1
\* The object RedBlackTree._NIL, the sentinel shared by the class.
NIL == 0
\* The sentinel's key, the string "T.nil": unequal to every integer key and
\* not comparable with one by <.
NilKey == -2
\* Capacity of the stack the iterative walk allocates.
StackCap == 20

Keys == 1..MaxKey
Nodes == 1..MaxNodes
RbNodes == 1..MaxRbNodes

VARIABLES
    key,      \* Node.key of every constructed object
    left,     \* Node.left
    right,    \* Node.right
    p,        \* Node.p
    color,    \* RedBlackTree.Node.color ("RED"/"BLACK"); empty for a plain tree
    root,     \* tree._root
    n,        \* tree._n
    used,     \* number of Node objects constructed so far (objects 1..used)
    st,       \* how the last call ended: "ok", an exception name, or "hang"
    stackS,   \* Stack._S, the array of a Stack object (indices from 0)
    top,      \* Stack._top
    queueQ,   \* Queue._Q, the array of a Queue object (indices from 0)
    head,     \* Queue._head
    tail,     \* Queue._tail
    held      \* history: the elements put in and not yet taken out, oldest first

vars == <<key, left, right, p, color, root, n, used, st,
         stackS, top, queueQ, head, tail, held>>

\* The tree and its nodes as one record, the value the operators work on.
Cur == [key |-> key, left |-> left, right |-> right, p |-> p, color |-> color,
        root |-> root, n |-> n, st |-> st]

\* A call's result: a value, or the exception that ended the call.
Ok(v) == [st |-> "ok", v |-> v]
Raise(e, v) == [st |-> e, v |-> v]

\* The value of a one-element set.  An operator binds its arguments, and
\* the values it computes once and reads several times, as v \in {e}: each
\* is then evaluated once, as an assignment to a local variable is.
Val(S) == CHOOSE r \in S : TRUE

\* Python truth value of a node reference: Node defines neither __bool__ nor
\* __len__, so every object (the sentinel too) is true and only None is false.
Truthy(x) == x # None

\* A run on a tree has no Stack and no Queue object of its own.
NoContainer ==
    /\ stackS = None /\ top = None
    /\ queueQ = None /\ head = None /\ tail = None
    /\ held = None

\* ----------------------------------------------------- BinarySearchTree

\* BinarySearchTree.tree_search(x, k), recursive.  Comparing an integer with
\* the sentinel's string key by < raises TypeError.
RECURSIVE tree_search(_, _, _)
tree_search(T, x, k) ==
    IF x = None \/ k = T.key[x] THEN Ok(x)
    ELSE IF T.key[x] = NilKey THEN Raise("TypeError", None)
    ELSE IF k < T.key[x] THEN tree_search(T, T.left[x], k)
    ELSE tree_search(T, T.right[x], k)

\* An iterative search that descends to the wrong side: right on k < x.key.
RECURSIVE iterative_tree_search_wrong_side(_, _, _)
iterative_tree_search_wrong_side(T, x, k) ==
    IF ~(x # None /\ k # T.key[x]) THEN Ok(x)
    ELSE IF T.key[x] = NilKey THEN Raise("TypeError", None)
    ELSE IF k < T.key[x] THEN iterative_tree_search_wrong_side(T, T.right[x], k)
    ELSE iterative_tree_search_wrong_side(T, T.left[x], k)

\* BinarySearchTree.iterative_tree_search(x, k).
RECURSIVE iterative_tree_search(_, _, _)
iterative_tree_search(T, x, k) ==
    IF ~(x # None /\ k # T.key[x]) THEN Ok(x)
    ELSE IF T.key[x] = NilKey THEN Raise("TypeError", None)
    ELSE IF k < T.key[x] THEN iterative_tree_search(T, T.left[x], k)
    ELSE iterative_tree_search(T, T.right[x], k)

\* The loop of tree_minimum: while x.left is not None: x = x.left.  The loop
\* reads the heap only, so meeting a node twice is a loop that never ends.
RECURSIVE minimum_loop(_, _, _)
minimum_loop(T, x, seen) ==
    IF x = None THEN Raise("AttributeError", None)
    ELSE IF T.left[x] = None THEN Ok(x)
    ELSE IF T.left[x] \in seen \cup {x} THEN Raise("hang", None)
    ELSE minimum_loop(T, T.left[x], seen \cup {x})

\* BinarySearchTree.tree_minimum(x).
tree_minimum(T, x) == minimum_loop(T, x, {})

\* A descent that goes left on z.key <= x.key, so that an equal key turns
\* left.
RECURSIVE insert_descend_left_on_equal(_, _, _, _)
insert_descend_left_on_equal(T, z, x, y) ==
    IF x = None THEN y
    ELSE insert_descend_left_on_equal(
             T, z, IF T.key[z] <= T.key[x] THEN T.left[x] ELSE T.right[x], x)

\* BinarySearchTree.tree_insert(z): descend from the root, left on z.key <
\* x.key and right otherwise, link z under the last node met, count it.
RECURSIVE insert_descend(_, _, _, _)
insert_descend(T, z, x, y) ==
    IF x = None THEN y
    ELSE insert_descend(T, z, IF T.key[z] < T.key[x] THEN T.left[x] ELSE T.right[x], x)

\* A tree_insert that links z as the right child when z.key < y.key and as
\* the left child otherwise.
tree_insert_wrong_side(T, z) ==
    LET y == insert_descend(T, z, T.root, None)
        T1 == [T EXCEPT !.p[z] = y]
        T2 == IF y = None THEN [T1 EXCEPT !.root = z]
              ELSE IF T1.key[z] < T1.key[y] THEN [T1 EXCEPT !.right[y] = z]
              ELSE [T1 EXCEPT !.left[y] = z]
    IN [T2 EXCEPT !.n = T2.n + 1]

tree_insert(T, z) ==
    LET y == insert_descend(T, z, T.root, None)
        T1 == [T EXCEPT !.p[z] = y]
        T2 == IF y = None THEN [T1 EXCEPT !.root = z]
              ELSE IF T1.key[z] < T1.key[y] THEN [T1 EXCEPT !.left[y] = z]
              ELSE [T1 EXCEPT !.right[y] = z]
    IN [T2 EXCEPT !.n = T2.n + 1]

\* A transplant that puts v in u's slot but leaves v.p as it was.
transplant_keeps_parent(T, u, v) ==
    IF T.p[u] = None THEN [T EXCEPT !.root = v]
    ELSE IF u = T.left[T.p[u]] THEN [T EXCEPT !.left[T.p[u]] = v]
    ELSE [T EXCEPT !.right[T.p[u]] = v]

\* BinarySearchTree.transplant(u, v).
transplant(T, u, v) ==
    LET T1 == IF T.p[u] = None THEN [T EXCEPT !.root = v]
              ELSE IF u = T.left[T.p[u]] THEN [T EXCEPT !.left[T.p[u]] = v]
              ELSE [T EXCEPT !.right[T.p[u]] = v]
    IN IF v # None THEN [T1 EXCEPT !.p[v] = T1.p[u]] ELSE T1

\* A tree_delete that, for z with two children, puts the successor y in z's
\* place without handing z's left subtree to y.
tree_delete_drops_left(T, z) ==
    IF T.left[z] = None THEN transplant(T, z, T.right[z])
    ELSE IF T.right[z] = None THEN transplant(T, z, T.left[z])
    ELSE
        LET r == tree_minimum(T, T.right[z])
        IN  IF r.st # "ok" THEN [T EXCEPT !.st = r.st]
            ELSE
              LET y == r.v
                  T1 == IF T.p[y] # z
                        THEN LET A == transplant(T, y, T.right[y])
                                 B == [A EXCEPT !.right[y] = A.right[z]]
                             IN  [B EXCEPT !.p[B.right[y]] = y]
                        ELSE T
              IN  transplant(T1, z, y)

\* A tree_delete that, for z with two children, hands z's left subtree to
\* the successor y without telling the subtree's root its new parent.
tree_delete_keeps_left_parent(T, z) ==
    IF T.left[z] = None THEN transplant(T, z, T.right[z])
    ELSE IF T.right[z] = None THEN transplant(T, z, T.left[z])
    ELSE
        LET r == tree_minimum(T, T.right[z])
        IN  IF r.st # "ok" THEN [T EXCEPT !.st = r.st]
            ELSE
              LET y == r.v
                  T1 == IF T.p[y] # z
                        THEN LET A == transplant(T, y, T.right[y])
                                 B == [A EXCEPT !.right[y] = A.right[z]]
                             IN  [B EXCEPT !.p[B.right[y]] = y]
                        ELSE T
                  T2 == transplant(T1, z, y)
              IN  [T2 EXCEPT !.left[y] = T2.left[z]]

\* BinarySearchTree.tree_delete(z).  _n is not touched.
tree_delete(T, z) ==
    IF T.left[z] = None THEN transplant(T, z, T.right[z])
    ELSE IF T.right[z] = None THEN transplant(T, z, T.left[z])
    ELSE
        LET r == tree_minimum(T, T.right[z])
        IN  IF r.st # "ok" THEN [T EXCEPT !.st = r.st]
            ELSE
              LET y == r.v
                  T1 == IF T.p[y] # z
                        THEN LET A == transplant(T, y, T.right[y])
                                 B == [A EXCEPT !.right[y] = A.right[z]]
                             IN  [B EXCEPT !.p[B.right[y]] = y]
                        ELSE T
                  T2 == transplant(T1, z, y)
                  T3 == [T2 EXCEPT !.left[y] = T2.left[z]]
              IN  [T3 EXCEPT !.p[T3.left[y]] = y]

\* A __delitem__ that deletes the root whenever some node holds the key.
delitem_deletes_root(T, k) ==
    LET r == tree_search(T, T.root, k)
    IN  IF r.st # "ok" THEN [T EXCEPT !.st = r.st]
        ELSE IF Truthy(r.v) THEN tree_delete(T, T.root)
        ELSE T

\* BinarySearchTree.__delitem__(key): look the key up from the root and delete
\* the node found, if any.
delitem(T, k) ==
    LET r == tree_search(T, T.root, k)
    IN  IF r.st # "ok" THEN [T EXCEPT !.st = r.st]
        ELSE IF Truthy(r.v) THEN tree_delete(T, r.v)
        ELSE T

\* A walk that yields x.key before the keys of x's left subtree.
RECURSIVE inorder_walk_key_first(_, _, _)
inorder_walk_key_first(T, x, anc) ==
    IF ~Truthy(x) THEN Ok(<<>>)
    ELSE IF x \in anc THEN Raise("RecursionError", <<>>)
    ELSE LET l == inorder_walk_key_first(T, T.left[x], anc \cup {x})
         IN  IF l.st # "ok" THEN l
             ELSE LET r == inorder_walk_key_first(T, T.right[x], anc \cup {x})
                  IN  [st |-> r.st, v |-> <<T.key[x]>> \o l.v \o r.v]

\* BinaryTree.inorder_tree_walk(x): the keys the generator yields.  A call
\* nested in a call on the same node recurses without end: RecursionError.
RECURSIVE inorder_walk(_, _, _)
inorder_walk(T, x, anc) ==
    IF ~Truthy(x) THEN Ok(<<>>)
    ELSE IF x \in anc THEN Raise("RecursionError", <<>>)
    ELSE LET l == inorder_walk(T, T.left[x], anc \cup {x})
         IN  IF l.st # "ok" THEN l
             ELSE LET r == inorder_walk(T, T.right[x], anc \cup {x})
                  IN  [st |-> r.st, v |-> l.v \o <<T.key[x]>> \o r.v]

inorder_tree_walk(T, x) == inorder_walk(T, x, {})

\* Tree.preorder_tree_walk(x): the keys the generator yields, x.key first.
RECURSIVE preorder_walk(_, _, _)
preorder_walk(T, x, anc) ==
    IF ~Truthy(x) THEN Ok(<<>>)
    ELSE IF x \in anc THEN Raise("RecursionError", <<>>)
    ELSE LET l == preorder_walk(T, T.left[x], anc \cup {x})
         IN  IF l.st # "ok" THEN l
             ELSE LET r == preorder_walk(T, T.right[x], anc \cup {x})
                  IN  [st |-> r.st, v |-> <<T.key[x]>> \o l.v \o r.v]

preorder_tree_walk(T, x) == preorder_walk(T, x, {})

\* A postorder walk that goes into the right subtree before the left one.
RECURSIVE postorder_walk_right_first(_, _, _)
postorder_walk_right_first(T, x, anc) ==
    IF ~Truthy(x) THEN Ok(<<>>)
    ELSE IF x \in anc THEN Raise("RecursionError", <<>>)
    ELSE LET r == postorder_walk_right_first(T, T.right[x], anc \cup {x})
         IN  IF r.st # "ok" THEN r
             ELSE LET l == postorder_walk_right_first(T, T.left[x], anc \cup {x})
                  IN  [st |-> l.st, v |-> r.v \o l.v \o <<T.key[x]>>]

\* Tree.postorder_tree_walk(x): the keys the generator yields, x.key last.
RECURSIVE postorder_walk(_, _, _)
postorder_walk(T, x, anc) ==
    IF ~Truthy(x) THEN Ok(<<>>)
    ELSE IF x \in anc THEN Raise("RecursionError", <<>>)
    ELSE LET l == postorder_walk(T, T.left[x], anc \cup {x})
         IN  IF l.st # "ok" THEN l
             ELSE LET r == postorder_walk(T, T.right[x], anc \cup {x})
                  IN  [st |-> r.st, v |-> l.v \o r.v \o <<T.key[x]>>]

postorder_tree_walk(T, x) == postorder_walk(T, x, {})

\* BinarySearchTree.__iter__: the inorder walk from the root.
iter(T) == inorder_tree_walk(T, T.root)

\* Stack.push / Stack.pop on the walk's stack, a sequence whose last element
\* is S[top].
push(S, x) == IF Len(S) >= StackCap THEN Raise("StackOverflowError", S)
              ELSE Ok(Append(S, x))

\* BinaryTree.iterative_inorder_tree_walk(x): pop a reference; when it is
\* true yield its key, then push its right and its left child.
RECURSIVE iterative_walk_loop(_, _, _)
iterative_walk_loop(T, S, out) ==
    IF Len(S) = 0 THEN Ok(out)
    ELSE LET z == S[Len(S)]
             S1 == SubSeq(S, 1, Len(S) - 1)
         IN  IF ~Truthy(z) THEN iterative_walk_loop(T, S1, out)
             ELSE LET out1 == Append(out, T.key[z])
                      a == push(S1, T.right[z])
                  IN  IF a.st # "ok" THEN Raise(a.st, out1)
                      ELSE LET b == push(a.v, T.left[z])
                           IN  IF b.st # "ok" THEN Raise(b.st, out1)
                               ELSE iterative_walk_loop(T, b.v, out1)

iterative_inorder_tree_walk(T, x) == iterative_walk_loop(T, <<x>>, <<>>)

\* BinaryTree.__len__.
len(T) == T.n

\* The loop of tree_maximum: while x.right is not None: x = x.right.
RECURSIVE maximum_loop(_, _, _)
maximum_loop(T, x, seen) ==
    IF x = None THEN Raise("AttributeError", None)
    ELSE IF T.right[x] = None THEN Ok(x)
    ELSE IF T.right[x] \in seen \cup {x} THEN Raise("hang", None)
    ELSE maximum_loop(T, T.right[x], seen \cup {x})

\* A tree_maximum that takes one step to the right at most.
tree_maximum_one_step(T, x) ==
    IF x = None THEN Raise("AttributeError", None)
    ELSE IF T.right[x] = None THEN Ok(x)
    ELSE Ok(T.right[x])

\* BinarySearchTree.tree_maximum(x).
tree_maximum(T, x) == maximum_loop(T, x, {})

\* BinarySearchTree.recursive_tree_minimum(x): a call nested in a call on
\* the same node recurses without end.
RECURSIVE recursive_minimum(_, _, _)
recursive_minimum(T, x, anc) ==
    IF x = None THEN Raise("AttributeError", None)
    ELSE IF x \in anc THEN Raise("RecursionError", None)
    ELSE IF T.left[x] # None THEN recursive_minimum(T, T.left[x], anc \cup {x})
    ELSE Ok(x)

recursive_tree_minimum(T, x) == recursive_minimum(T, x, {})

\* BinarySearchTree.recursive_tree_maximum(x).
RECURSIVE recursive_maximum(_, _, _)
recursive_maximum(T, x, anc) ==
    IF x = None THEN Raise("AttributeError", None)
    ELSE IF x \in anc THEN Raise("RecursionError", None)
    ELSE IF T.right[x] # None THEN recursive_maximum(T, T.right[x], anc \cup {x})
    ELSE Ok(x)

recursive_tree_maximum(T, x) == recursive_maximum(T, x, {})

\* The loop of tree_successor: y = x.p; while y is not None and x == y.right:
\* x = y; y = y.p.  (Node.__eq__ is identity.)
RECURSIVE successor_climb(_, _, _, _)
successor_climb(T, x, y, seen) ==
    IF ~(y # None /\ x = T.right[y]) THEN Ok(y)
    ELSE IF y \in seen THEN Raise("hang", None)
    ELSE successor_climb(T, y, T.p[y], seen \cup {y})

\* A tree_successor that gives x.p when x has no right child.
tree_successor_no_climb(T, x) ==
    IF x = None THEN Raise("AttributeError", None)
    ELSE IF Truthy(T.right[x]) THEN tree_minimum(T, T.right[x])
    ELSE Ok(T.p[x])

\* BinarySearchTree.tree_successor(x).
tree_successor(T, x) ==
    IF x = None THEN Raise("AttributeError", None)
    ELSE IF Truthy(T.right[x]) THEN tree_minimum(T, T.right[x])
    ELSE successor_climb(T, x, T.p[x], {})

\* The loop of tree_predecessor: y = x.p; while y is not None and
\* x == y.left: x = y; y = y.p.
RECURSIVE predecessor_climb(_, _, _, _)
predecessor_climb(T, x, y, seen) ==
    IF ~(y # None /\ x = T.left[y]) THEN Ok(y)
    ELSE IF y \in seen THEN Raise("hang", None)
    ELSE predecessor_climb(T, y, T.p[y], seen \cup {y})

\* A tree_predecessor that gives x.p when x has no left child.
tree_predecessor_no_climb(T, x) ==
    IF x = None THEN Raise("AttributeError", None)
    ELSE IF Truthy(T.left[x]) THEN tree_maximum(T, T.left[x])
    ELSE Ok(T.p[x])

\* BinarySearchTree.tree_predecessor(x).
tree_predecessor(T, x) ==
    IF x = None THEN Raise("AttributeError", None)
    ELSE IF Truthy(T.left[x]) THEN tree_maximum(T, T.left[x])
    ELSE predecessor_climb(T, x, T.p[x], {})

\* Tree.n_children(x), the abstract static method that Tree.isleaf names:
\* its body is the ellipsis, so it returns None and never reads x.
tree_n_children(x) == None

\* Tree.isleaf(x): Tree.n_children(x) == 0.
isleaf(x) == tree_n_children(x) = 0

\* BinaryTree.children(x): the children of x that are true, left first;
\* reading None.left raises.
children(T, x) ==
    IF x = None THEN Raise("AttributeError", <<>>)
    ELSE Ok((IF Truthy(T.left[x]) THEN <<T.left[x]>> ELSE <<>>)
            \o (IF Truthy(T.right[x]) THEN <<T.right[x]>> ELSE <<>>))

\* Tree._height(x): 0 for a leaf, otherwise 1 + max over the children; max
\* of no children raises ValueError; a call nested in a call on the same
\* node recurses without end.
RECURSIVE height_rec(_, _, _)
height_rec(T, x, anc) ==
    IF isleaf(x) THEN Ok(0)
    ELSE IF x \in anc THEN Raise("RecursionError", None)
    ELSE LET c == children(T, x)
         IN  IF c.st # "ok" THEN Raise(c.st, None)
             ELSE IF c.v = <<>> THEN Raise("ValueError", None)
             ELSE LET h1 == height_rec(T, c.v[1], anc \cup {x})
                  IN  IF h1.st # "ok" THEN h1
                      ELSE IF Len(c.v) = 1 THEN Ok(1 + h1.v)
                      ELSE LET h2 == height_rec(T, c.v[2], anc \cup {x})
                           IN  IF h2.st # "ok" THEN h2
                               ELSE Ok(1 + (IF h1.v >= h2.v THEN h1.v ELSE h2.v))

\* Tree.height(x=None): the height below x, below the root when x is false.
height(T, x) == height_rec(T, IF ~Truthy(x) THEN T.root ELSE x, {})

\* --------------------------------------------------------- RedBlackTree

\* Node.isnil(): true of the sentinel only.
isnil(x) == x = NIL

\* A _left_rotate that leaves _root alone when x is the root.
left_rotate_keeps_root(Ta, xa) == Val({
    LET y  == T.right[x]
        T1 == [T EXCEPT !.right[x] = T.left[y]]
        T2 == IF ~isnil(T1.left[y]) THEN [T1 EXCEPT !.p[T1.left[y]] = x] ELSE T1
        T3 == [T2 EXCEPT !.p[y] = T2.p[x]]
        T4 == IF isnil(T3.p[x]) THEN T3
              ELSE IF x = T3.left[T3.p[x]] THEN [T3 EXCEPT !.left[T3.p[x]] = y]
              ELSE [T3 EXCEPT !.right[T3.p[x]] = y]
    IN  [T4 EXCEPT !.left[y] = x, !.p[x] = y]
    : T \in {Ta}, x \in {xa} })

\* BalanceSearchTree._left_rotate(x).
left_rotate(Ta, xa) == Val({
    LET y  == T.right[x]
        T1 == [T EXCEPT !.right[x] = T.left[y]]
        T2 == IF ~isnil(T1.left[y]) THEN [T1 EXCEPT !.p[T1.left[y]] = x] ELSE T1
        T3 == [T2 EXCEPT !.p[y] = T2.p[x]]
        T4 == IF isnil(T3.p[x]) THEN [T3 EXCEPT !.root = y]
              ELSE IF x = T3.left[T3.p[x]] THEN [T3 EXCEPT !.left[T3.p[x]] = y]
              ELSE [T3 EXCEPT !.right[T3.p[x]] = y]
    IN  [T4 EXCEPT !.left[y] = x, !.p[x] = y]
    : T \in {Ta}, x \in {xa} })

\* BalanceSearchTree._right_rotate(x).  When x is the right child of its
\* parent the code assigns x.p.right.p = y: the parent's right reference is
\* left as it was.
right_rotate(Ta, xa) == Val({
    LET y  == T.left[x]
        T1 == [T EXCEPT !.left[x] = T.right[y]]
        T2 == IF ~isnil(T1.right[y]) THEN [T1 EXCEPT !.p[T1.right[y]] = x] ELSE T1
        T3 == [T2 EXCEPT !.p[y] = T2.p[x]]
        T4 == IF isnil(T3.p[x]) THEN [T3 EXCEPT !.root = y]
              ELSE IF x = T3.right[T3.p[x]] THEN [T3 EXCEPT !.p[T3.right[T3.p[x]]] = y]
              ELSE [T3 EXCEPT !.left[T3.p[x]] = y]
    IN  [T4 EXCEPT !.right[y] = x, !.p[x] = y]
    : T \in {Ta}, x \in {xa} })

\* A case 1 that recolors z.p, y and z.p.p but leaves z where it is.
insert_case1_keeps_z(Ta, za, ya) == Val({
    [T |-> [T EXCEPT !.color[T.p[z]] = "BLACK",
                     !.color[y] = "BLACK",
                     !.color[T.p[T.p[z]]] = "RED"],
     z |-> z]
    : T \in {Ta}, z \in {za}, y \in {ya} })

\* Case 1 of _rb_insert_fixup with uncle y: z.p.color = BLACK, y.color =
\* BLACK, z.p.p.color = RED, in that order, and z = z.p.p.
insert_case1(Ta, za, ya) == Val({
    [T |-> [T EXCEPT !.color[T.p[z]] = "BLACK",
                     !.color[y] = "BLACK",
                     !.color[T.p[T.p[z]]] = "RED"],
     z |-> T.p[T.p[z]]]
    : T \in {Ta}, z \in {za}, y \in {ya} })

\* Case 2 of _rb_insert_fixup, z.p a left child: if z is a right child,
\* z = z.p and a left rotation at z.
insert_case2_left(Ta, za) == Val({
    IF z = T.right[T.p[z]]
    THEN [T |-> left_rotate(T, T.p[z]), z |-> T.p[z]]
    ELSE [T |-> T, z |-> z]
    : T \in {Ta}, z \in {za} })

\* Case 3 of _rb_insert_fixup, z.p a left child: z.p.color = BLACK,
\* z.p.p.color = RED and a right rotation at z.p.p.
insert_case3_left(Ta, za) == Val({
    [T |-> right_rotate([T EXCEPT !.color[T.p[z]] = "BLACK",
                                  !.color[T.p[T.p[z]]] = "RED"], T.p[T.p[z]]),
     z |-> z]
    : T \in {Ta}, z \in {za} })

\* Case 2, z.p a right child: if z is a left child, z = z.p and a right
\* rotation at z.
insert_case2_right(Ta, za) == Val({
    IF z = T.left[T.p[z]]
    THEN [T |-> right_rotate(T, T.p[z]), z |-> T.p[z]]
    ELSE [T |-> T, z |-> z]
    : T \in {Ta}, z \in {za} })

\* Case 3, z.p a right child: z.p.color = BLACK, z.p.p.color = RED and a
\* left rotation at z.p.p.
insert_case3_right(Ta, za) == Val({
    [T |-> left_rotate([T EXCEPT !.color[T.p[z]] = "BLACK",
                                 !.color[T.p[T.p[z]]] = "RED"], T.p[T.p[z]]),
     z |-> z]
    : T \in {Ta}, z \in {za} })

\* One iteration of the loop of _rb_insert_fixup, entered with z.p RED: the
\* tree and z after it.  When z.p is neither child of z.p.p nothing changes.
insert_fixup_body(Ta, za) == Val({
    IF T.p[z] = T.left[T.p[T.p[z]]] THEN
        IF T.color[T.right[T.p[T.p[z]]]] = "RED"
        THEN insert_case1(T, z, T.right[T.p[T.p[z]]])
        ELSE LET s == insert_case2_left(T, z) IN insert_case3_left(s.T, s.z)
    ELSE IF T.p[z] = T.right[T.p[T.p[z]]] THEN
        IF T.color[T.left[T.p[T.p[z]]]] = "RED"
        THEN insert_case1(T, z, T.left[T.p[T.p[z]]])
        ELSE LET s == insert_case2_right(T, z) IN insert_case3_right(s.T, s.z)
    ELSE [T |-> T, z |-> z]
    : T \in {Ta}, z \in {za} })

\* The loop of _rb_insert_fixup: while z.p.color == RED.  The body is a
\* function of the tree and z, so a pair met twice is a loop without end.
RECURSIVE insert_fixup_loop(_, _, _)
insert_fixup_loop(Ta, za, seena) == Val({
    IF T.color[T.p[z]] # "RED" THEN T
    ELSE IF <<T, z>> \in seen THEN [T EXCEPT !.st = "hang"]
    ELSE insert_fixup_loop(s.T, s.z, seen \cup {<<T, z>>})
    : T \in {Ta}, z \in {za}, seen \in {seena}, s \in {insert_fixup_body(Ta, za)} })

\* An _rb_insert_fixup that ends with its loop and leaves the root's color.
rb_insert_fixup_keeps_root_color(Ta, za) == insert_fixup_loop(Ta, za, {})

\* RedBlackTree._rb_insert_fixup(z): the loop, then the root is made BLACK.
rb_insert_fixup(Ta, za) == Val({
    IF T.st # "ok" THEN T ELSE [T EXCEPT !.color[T.root] = "BLACK"]
    : T \in {insert_fixup_loop(Ta, za, {})} })

\* The descent of rb_insert: while not x.isnil().
RECURSIVE rb_insert_descend(_, _, _, _, _)
rb_insert_descend(T, z, xa, y, seena) == Val({
    IF isnil(x) THEN Ok(y)
    ELSE IF x \in seen THEN Raise("hang", None)
    ELSE rb_insert_descend(T, z,
            IF T.key[z] < T.key[x] THEN T.left[x] ELSE T.right[x], x, seen \cup {x})
    : x \in {xa}, seen \in {seena} })

\* An attachment that leaves z the color its constructor gave it.
rb_insert_attach_keeps_color(Ta, za, ya) == Val({
    LET T1 == [T EXCEPT !.p[z] = y]
        T2 == IF isnil(y) THEN [T1 EXCEPT !.root = z]
              ELSE IF T1.key[z] < T1.key[y] THEN [T1 EXCEPT !.left[y] = z]
              ELSE [T1 EXCEPT !.right[y] = z]
    IN  [T2 EXCEPT !.left[z] = NIL, !.right[z] = NIL]
    : T \in {Ta}, z \in {za}, y \in {ya} })

\* rb_insert after the descent found the parent y, up to the call of the
\* fixup: z is linked below y and given sentinel children and RED.
rb_insert_attach(Ta, za, ya) == Val({
    LET T1 == [T EXCEPT !.p[z] = y]
        T2 == IF isnil(y) THEN [T1 EXCEPT !.root = z]
              ELSE IF T1.key[z] < T1.key[y] THEN [T1 EXCEPT !.left[y] = z]
              ELSE [T1 EXCEPT !.right[y] = z]
    IN  [T2 EXCEPT !.left[z] = NIL, !.right[z] = NIL, !.color[z] = "RED"]
    : T \in {Ta}, z \in {za}, y \in {ya} })

\* rb_insert after the descent found the parent y: z is attached and the
\* fixup runs.
rb_insert_link(Ta, za, ya) == rb_insert_fixup(rb_insert_attach(Ta, za, ya), za)

\* RedBlackTree.rb_insert(z).
rb_insert(Ta, za) == Val({
    IF d.st # "ok" THEN [Ta EXCEPT !.st = d.st]
    ELSE Val({ IF T.st # "ok" THEN T ELSE [T EXCEPT !.n = T.n + 1]
               : T \in {rb_insert_link(Ta, za, d.v)} })
    : d \in {rb_insert_descend(Ta, za, Ta.root, NIL, {})} })

\* An rb_transplant that, like the plain transplant, leaves v.p alone when v
\* is the sentinel.
rb_transplant_skips_sentinel(Ta, ua, va) == Val({
    LET T1 == IF isnil(T.p[u]) THEN [T EXCEPT !.root = v]
              ELSE IF u = T.left[T.p[u]] THEN [T EXCEPT !.left[T.p[u]] = v]
              ELSE [T EXCEPT !.right[T.p[u]] = v]
    IN  IF isnil(v) THEN T1 ELSE [T1 EXCEPT !.p[v] = T.p[u]]
    : T \in {Ta}, u \in {ua}, v \in {va} })

\* RedBlackTree.rb_transplant(u, v).
rb_transplant(Ta, ua, va) == Val({
    LET T1 == IF isnil(T.p[u]) THEN [T EXCEPT !.root = v]
              ELSE IF u = T.left[T.p[u]] THEN [T EXCEPT !.left[T.p[u]] = v]
              ELSE [T EXCEPT !.right[T.p[u]] = v]
    IN  [T1 EXCEPT !.p[v] = T.p[u]]
    : T \in {Ta}, u \in {ua}, v \in {va} })

\* w = x.p.right after a rotation, as a pair with the tree.
with_right_sibling(Ta, x) == Val({ [T |-> T, w |-> T.right[T.p[x]]] : T \in {Ta} })

\* w = x.p.left after a rotation, as a pair with the tree.
with_left_sibling(Ta, x) == Val({ [T |-> T, w |-> T.left[T.p[x]]] : T \in {Ta} })

\* x = self._root after the last rotation, as a pair with the tree.
with_root(Ta) == Val({ [T |-> T, x |-> T.root] : T \in {Ta} })

\* _rb_delete_fixup, x a left child, case 1 with sibling w = x.p.right: if w
\* is RED, w.color = BLACK, x.p.color = RED, a left rotation at x.p and
\* w = x.p.right.  Gives the tree and w.
delete_case1_left(Ta, xa) == Val({
    IF T.color[T.right[T.p[x]]] = "RED" THEN
        with_right_sibling(
            left_rotate([T EXCEPT !.color[T.right[T.p[x]]] = "BLACK",
                                  !.color[T.p[x]] = "RED"], T.p[x]), x)
    ELSE [T |-> T, w |-> T.right[T.p[x]]]
    : T \in {Ta}, x \in {xa} })

\* Case 3, x a left child: if w.right is BLACK, w.left.color = BLACK,
\* w.color = RED, a right rotation at w and w = x.p.right.
delete_case3_left(Ta, xa, wa) == Val({
    IF T.color[T.right[w]] = "BLACK" THEN
        with_right_sibling(
            right_rotate([T EXCEPT !.color[T.left[w]] = "BLACK",
                                   !.color[w] = "RED"], w), x)
    ELSE [T |-> T, w |-> w]
    : T \in {Ta}, x \in {xa}, w \in {wa} })

\* Case 4, x a left child: w.color = x.p.color, x.p.color = BLACK,
\* w.right.color = BLACK, a left rotation at x.p and x = root.
delete_case4_left(Ta, xa, wa) == Val({
    with_root(left_rotate([T EXCEPT !.color[w] = T.color[T.p[x]],
                                    !.color[T.p[x]] = "BLACK",
                                    !.color[T.right[w]] = "BLACK"], T.p[x]))
    : T \in {Ta}, x \in {xa}, w \in {wa} })

\* Cases 2 to 4, x a left child with sibling w: the tree and x after them.
delete_case234_left(Ta, xa, wa) == Val({
    IF T.color[T.left[w]] = "BLACK" /\ T.color[T.right[w]] = "BLACK"
    THEN [T |-> [T EXCEPT !.color[w] = "RED"], x |-> T.p[x]]
    ELSE LET s == delete_case3_left(T, x, w) IN delete_case4_left(s.T, x, s.w)
    : T \in {Ta}, x \in {xa}, w \in {wa} })

\* The mirror image of case 1, x a right child.
delete_case1_right(Ta, xa) == Val({
    IF T.color[T.left[T.p[x]]] = "RED" THEN
        with_left_sibling(
            right_rotate([T EXCEPT !.color[T.left[T.p[x]]] = "BLACK",
                                   !.color[T.p[x]] = "RED"], T.p[x]), x)
    ELSE [T |-> T, w |-> T.left[T.p[x]]]
    : T \in {Ta}, x \in {xa} })

\* The mirror image of case 3, x a right child.
delete_case3_right(Ta, xa, wa) == Val({
    IF T.color[T.left[w]] = "BLACK" THEN
        with_left_sibling(
            left_rotate([T EXCEPT !.color[T.right[w]] = "BLACK",
                                  !.color[w] = "RED"], w), x)
    ELSE [T |-> T, w |-> w]
    : T \in {Ta}, x \in {xa}, w \in {wa} })

\* The mirror image of case 4, x a right child.
delete_case4_right(Ta, xa, wa) == Val({
    with_root(right_rotate([T EXCEPT !.color[w] = T.color[T.p[x]],
                                     !.color[T.p[x]] = "BLACK",
                                     !.color[T.left[w]] = "BLACK"], T.p[x]))
    : T \in {Ta}, x \in {xa}, w \in {wa} })

\* The mirror image of cases 2 to 4, x a right child.
delete_case234_right(Ta, xa, wa) == Val({
    IF T.color[T.right[w]] = "BLACK" /\ T.color[T.left[w]] = "BLACK"
    THEN [T |-> [T EXCEPT !.color[w] = "RED"], x |-> T.p[x]]
    ELSE LET s == delete_case3_right(T, x, w) IN delete_case4_right(s.T, x, s.w)
    : T \in {Ta}, x \in {xa}, w \in {wa} })

\* One iteration of the loop of _rb_delete_fixup: the tree and x after it.
\* When x is neither child of x.p nothing changes.
delete_fixup_body(Ta, xa) == Val({
    IF x = T.left[T.p[x]] THEN
        LET s == delete_case1_left(T, x) IN delete_case234_left(s.T, x, s.w)
    ELSE IF x = T.right[T.p[x]] THEN
        LET s == delete_case1_right(T, x) IN delete_case234_right(s.T, x, s.w)
    ELSE [T |-> T, x |-> x]
    : T \in {Ta}, x \in {xa} })

\* The loop test of _rb_delete_fixup: not x.isnil() and x.color == BLACK.
delete_fixup_test(T, x) == ~isnil(x) /\ T.color[x] = "BLACK"

\* The loop of _rb_delete_fixup: while not x.isnil() and x.color == BLACK.
\* The body is a function of the tree and x, so a pair met twice is a loop
\* without end.
RECURSIVE delete_fixup_loop(_, _, _)
delete_fixup_loop(Ta, xa, seena) == Val({
    IF ~delete_fixup_test(T, x) THEN [T |-> T, x |-> x]
    ELSE IF <<T, x>> \in seen THEN [T |-> [T EXCEPT !.st = "hang"], x |-> x]
    ELSE Val({ delete_fixup_loop(s.T, s.x, seen \cup {<<T, x>>})
               : s \in {delete_fixup_body(T, x)} })
    : T \in {Ta}, x \in {xa}, seen \in {seena} })

\* RedBlackTree._rb_delete_fixup(x): the loop, then x is made BLACK.
rb_delete_fixup(Ta, xa) == Val({
    IF s.T.st # "ok" THEN s.T ELSE [s.T EXCEPT !.color[s.x] = "BLACK"]
    : s \in {delete_fixup_loop(Ta, xa, {})} })

\* rb_delete, z with two children, once the successor y is found and x is
\* y.left: the else branch moves y.right into y's place and hands z.right to
\* y.
rb_delete_detach(Ta, za, ya, xa) == Val({
    IF T.p[y] = z THEN [T EXCEPT !.p[x] = y]
    ELSE LET A1 == rb_transplant(T, y, T.right[y])
         IN  [A1 EXCEPT !.right[y] = A1.right[z], !.p[A1.right[z]] = y]
    : T \in {Ta}, z \in {za}, y \in {ya}, x \in {xa} })

\* rb_delete, z with two children: y takes z's place, z's left subtree and
\* z's color.
rb_delete_replace(Ta, za, ya) == Val({
    [T EXCEPT !.left[y] = T.left[z], !.p[T.left[z]] = y, !.color[y] = T.color[z]]
    : T \in {rb_transplant(Ta, za, ya)}, z \in {za}, y \in {ya} })

\* RedBlackTree.rb_delete(z), z with two children that are not the
\* sentinel.  The successor is found with the inherited tree_minimum, whose
\* loop ends on None only; x is y.left.
rb_delete_two_children(Ta, za) == Val({
    IF r.st # "ok" THEN [T EXCEPT !.st = r.st]
    ELSE Val({ IF T.color[r.v] = "BLACK" THEN rb_delete_fixup(E, T.left[r.v]) ELSE E
               : E \in {rb_delete_replace(rb_delete_detach(T, z, r.v, T.left[r.v]), z, r.v)} })
    : T \in {Ta}, z \in {za}, r \in {tree_minimum(Ta, Ta.right[za])} })

\* rb_delete, z with at most one child that is not the sentinel: x is that
\* child or the sentinel, and takes z's place.
rb_delete_one_child(Ta, za, xa) == Val({
    IF T.color[z] = "BLACK" THEN rb_delete_fixup(A, x) ELSE A
    : T \in {Ta}, z \in {za}, x \in {xa}, A \in {rb_transplant(Ta, za, xa)} })

\* RedBlackTree.rb_delete(z).  _n is not touched.
rb_delete(Ta, za) == Val({
    IF isnil(T.left[z]) THEN rb_delete_one_child(T, z, T.right[z])
    ELSE IF isnil(T.right[z]) THEN rb_delete_one_child(T, z, T.left[z])
    ELSE rb_delete_two_children(T, z)
    : T \in {Ta}, z \in {za} })

\* RedBlackTree.__delitem__(key).
rb_delitem(Ta, k) == Val({
    IF r.st # "ok" THEN [T EXCEPT !.st = r.st]
    ELSE IF Truthy(r.v) THEN rb_delete(T, r.v)
    ELSE T
    : T \in {Ta}, r \in {tree_search(Ta, Ta.root, k)} })

\* The loop of RedBlackTree._black_height(x): while not x.left.isnil(), move
\* to x.left and count it when it is BLACK.  A node met twice is a loop
\* without end.
RECURSIVE black_height_loop(_, _, _, _)
black_height_loop(T, x, bh, seen) ==
    IF isnil(T.left[x]) THEN Ok(bh)
    ELSE IF T.left[x] \in seen THEN Raise("hang", None)
    ELSE black_height_loop(T, T.left[x],
             IF T.color[T.left[x]] = "BLACK" THEN bh + 1 ELSE bh,
             seen \cup {T.left[x]})

\* RedBlackTree._black_height(x): the loop's count plus one for the
\* sentinel.
black_height_spine(T, x) ==
    LET r == black_height_loop(T, x, 0, {x})
    IN  IF r.st # "ok" THEN r ELSE Ok(r.v + 1)

\* RedBlackTree.black_height(x=None): "if not x" holds for None only (a
\* Node, the sentinel included, is true).
black_height(T, x) ==
    black_height_spine(T, IF Truthy(x) THEN x ELSE T.root)

\* ------------------------------------------------------------ actions

\* The state after BinarySearchTree(): no root, no nodes.
InitBST ==
    /\ key = [x \in Nodes |-> None]
    /\ left = [x \in Nodes |-> None]
    /\ right = [x \in Nodes |-> None]
    /\ p = [x \in Nodes |-> None]
    /\ color = <<>>
    /\ root = None
    /\ n = 0
    /\ used = 0
    /\ st = "ok"
    /\ NoContainer

\* The call's result R (computed once) becomes the next state.
Set(T) ==
    /\ key' = T.key
    /\ left' = T.left
    /\ right' = T.right
    /\ p' = T.p
    /\ color' = T.color
    /\ root' = T.root
    /\ n' = T.n
    /\ st' = T.st
    /\ UNCHANGED <<stackS, top, queueQ, head, tail, held>>

\* Nodes reachable from x by child links (None and the sentinel are no nodes).
RECURSIVE Sub(_, _, _)
Sub(T, x, seen) ==
    IF x = None \/ x = NIL \/ x \in seen THEN seen
    ELSE Sub(T, T.right[x], Sub(T, T.left[x], seen \cup {x}))

\* The nodes currently in the tree.
InTree(T) == Sub(T, T.root, {})

\* z = BinarySearchTree.Node(k); tree.tree_insert(z), z a fresh object.
TreeInsert ==
    /\ st # "hang"
    /\ used < MaxNodes
    /\ \E k \in Keys :
         LET z == used + 1
             T0 == [Cur EXCEPT !.key[z] = k, !.st = "ok"]
         IN  \E R \in {tree_insert(T0, z)} : Set(R)
    /\ used' = used + 1

\* tree.tree_delete(z) for a node z of the tree.
TreeDelete ==
    /\ st # "hang"
    /\ \E z \in InTree(Cur) :
         \E R \in {tree_delete([Cur EXCEPT !.st = "ok"], z)} : Set(R)
    /\ UNCHANGED used

\* del tree[k].
DelItem ==
    /\ st # "hang"
    /\ \E k \in Keys :
         \E R \in {delitem([Cur EXCEPT !.st = "ok"], k)} : Set(R)
    /\ UNCHANGED used

NextBST == TreeInsert \/ TreeDelete \/ DelItem

SpecBST == InitBST /\ [][NextBST]_vars

\* The state after RedBlackTree(): the root is the sentinel, whose fields
\* refer to itself and whose color is BLACK.
InitRBT ==
    /\ key = [x \in RbNodes \cup {NIL} |-> IF x = NIL THEN NilKey ELSE None]
    /\ left = [x \in RbNodes \cup {NIL} |-> IF x = NIL THEN NIL ELSE None]
    /\ right = [x \in RbNodes \cup {NIL} |-> IF x = NIL THEN NIL ELSE None]
    /\ p = [x \in RbNodes \cup {NIL} |-> IF x = NIL THEN NIL ELSE None]
    /\ color = [x \in RbNodes \cup {NIL} |-> IF x = NIL THEN "BLACK" ELSE "RED"]
    /\ root = NIL
    /\ n = 0
    /\ used = 0
    /\ st = "ok"
    /\ NoContainer

\* z = RedBlackTree.Node(k, color=c); tree.rb_insert(z), z a fresh object.
RbInsert ==
    /\ st # "hang"
    /\ used < MaxRbNodes
    /\ \E k \in Keys, c \in {"RED", "BLACK"} :
         LET z == used + 1
             T0 == [Cur EXCEPT !.key[z] = k, !.color[z] = c, !.st = "ok"]
         IN  \E R \in {rb_insert(T0, z)} : Set(R)
    /\ used' = used + 1

\* tree.rb_delete(z) for a node z of the tree.
RbDelete ==
    /\ st # "hang"
    /\ \E z \in InTree(Cur) :
         \E R \in {rb_delete([Cur EXCEPT !.st = "ok"], z)} : Set(R)
    /\ UNCHANGED used

\* del tree[k] on a red-black tree.
RbDelItem ==
    /\ st # "hang"
    /\ \E k \in Keys :
         \E R \in {rb_delitem([Cur EXCEPT !.st = "ok"], k)} : Set(R)
    /\ UNCHANGED used

NextRBT == RbInsert \/ RbDelete \/ RbDelItem

SpecRBT == InitRBT /\ [][NextRBT]_vars

\* A red-black tree that is only inserted into.
SpecRbInsert == InitRBT /\ [][RbInsert]_vars


\* ------------------------------------------------- properties, plain tree

\* Keys of the subtree rooted at x (x may be None).
SubTree(T, x) == Sub(T, x, {})

\* Search-tree ordering: no key of x's left subtree exceeds x.key and no key
\* of x's right subtree is below it.
Ordered(T) ==
    \A x \in InTree(T) :
        /\ \A y \in SubTree(T, T.left[x]) : T.key[y] <= T.key[x]
        /\ \A y \in SubTree(T, T.right[x]) : T.key[y] >= T.key[x]

\* No node has been deleted: every constructed node is in the tree.
OnlyInserts == InTree(Cur) = 1..used

\* The nodes that were deleted (constructed and no longer in the tree).
Deleted == (1..used) \ InTree(Cur)

\* C3: in a plain tree built by tree_insert calls alone (fresh nodes,
\* duplicates allowed), every key of a node's left subtree is <= the node's
\* key and every key of its right subtree is >= it.
C3_InsertKeepsOrder == OnlyInserts => Ordered(Cur)

\* C3 witness: a tree of MaxNodes inserted nodes with a duplicate key sitting
\* in the right subtree of its equal and a node with two children.
C3_Witness ==
    /\ OnlyInserts /\ used = MaxNodes
    /\ \E x \in InTree(Cur) : left[x] # None /\ right[x] # None
    /\ \E x \in InTree(Cur) : \E y \in SubTree(Cur, right[x]) : key[y] = key[x]

\* A step that is the call tree_delete(z) for a node z of the tree.
IsTreeDelete(z) ==
    /\ z \in InTree(Cur)
    /\ used' = used
    /\ Cur' = tree_delete([Cur EXCEPT !.st = "ok"], z)

\* C4: tree_delete(z), z in the tree, keeps the search-tree ordering and
\* leaves in the tree exactly the previous nodes minus z (whichever of the
\* three cases applies).
C4_DeleteKeepsOrder ==
    [][\A z \in Nodes : IsTreeDelete(z) =>
            /\ Ordered(Cur')
            /\ InTree(Cur') = InTree(Cur) \ {z}]_vars

\* C4 witness: a deleted node z that had two children and whose successor y
\* lay below z's right child: y now holds z's former children.
C4_Witness ==
    \E z \in Deleted : \E y \in InTree(Cur) :
        /\ left[z] # None /\ right[z] # None
        /\ y # right[z]
        /\ left[y] = left[z] /\ right[y] = right[z]
        /\ p[left[z]] = y /\ p[right[z]] = y

\* C5 (as claimed): the count len(tree) equals the number of nodes reachable
\* from the root.
C5_SizeIsNodeCount == len(Cur) = Cardinality(InTree(Cur))

\* C6 (as claimed): once every inserted node has been deleted again the root
\* is None and the count is 0.
C6_RoundTripEmpty ==
    (used > 0 /\ Deleted = 1..used) => (root = None /\ len(Cur) = 0)

\* Number of positions of sequence s holding k.
Count(s, k) == Cardinality({i \in 1..Len(s) : s[i] = k})

\* C7: after any inserts and deletes the inorder walk from the root (the
\* iteration order of the tree) yields each key of a node of the tree once
\* per node holding it, in non-decreasing order.
C7_InorderSorted ==
    LET w == iter(Cur)
    IN  /\ w.st = "ok"
        /\ Len(w.v) = Cardinality(InTree(Cur))
        /\ \A k \in Keys : Count(w.v, k) = Cardinality({x \in InTree(Cur) : key[x] = k})
        /\ \A i \in 1..(Len(w.v) - 1) : w.v[i] <= w.v[i + 1]

\* C7 witness: after a delete, a tree of at least three nodes with a
\* duplicate key and two distinct keys.
C7_Witness ==
    /\ Deleted # {}
    /\ Cardinality(InTree(Cur)) >= 3
    /\ \E x, y \in InTree(Cur) : x # y /\ key[x] = key[y]
    /\ \E x, y \in InTree(Cur) : key[x] < key[y]

\* C8 (as claimed): the stack-based walk yields the key sequence of the
\* recursive inorder walk, from every node of the tree.
C8_IterativeWalkIsInorder ==
    \A x \in InTree(Cur) \cup {root} :
        iterative_inorder_tree_walk(Cur, x) = inorder_tree_walk(Cur, x)

\* C9: from every node x of a plain tree (and from None) and for every key
\* k, tree_search and iterative_tree_search end without raising and return
\* the same thing: None when no node of x's subtree holds k, otherwise the
\* node holding k that is above every other node of the subtree holding k.
C9_SearchesAgree ==
    \A x \in InTree(Cur) \cup {None} : \A k \in Keys :
        LET r == tree_search(Cur, x, k)
            i == iterative_tree_search(Cur, x, k)
            holders == {y \in SubTree(Cur, x) : key[y] = k}
        IN  /\ r.st = "ok" /\ i.st = "ok"
            /\ r.v = i.v
            /\ (holders = {}) <=> (r.v = None)
            /\ holders # {} =>
                 /\ r.v \in holders
                 /\ holders \subseteq SubTree(Cur, r.v)

\* C9 witness: a tree in which a key is held twice, another key is absent,
\* and a search that starts below the root misses a key the tree holds.
C9_Witness ==
    /\ \E x, y \in InTree(Cur) : x # y /\ key[x] = key[y]
    /\ \E k \in Keys : \A x \in InTree(Cur) : key[x] # k
    /\ \E x \in InTree(Cur) \ {root} :
           tree_search(Cur, x, key[root]).v = None

\* ------------------------------------------- properties, red-black tree

\* The numbers of BLACK nodes met on the paths from x down to a sentinel, x
\* included (a path that comes back to a node, or ends on None, reaches no
\* sentinel and is given the count -1).
RECURSIVE BlackCounts(_, _, _)
BlackCounts(T, x, anc) ==
    IF x = NIL THEN {0}
    ELSE IF x = None \/ x \in anc THEN {-1}
    ELSE {IF h = -1 THEN -1 ELSE h + (IF T.color[x] = "BLACK" THEN 1 ELSE 0) :
            h \in BlackCounts(T, T.left[x], anc \cup {x})
                  \cup BlackCounts(T, T.right[x], anc \cup {x})}

\* Property 1: every node is RED or BLACK.
EveryNodeColored(T) == \A x \in InTree(T) : T.color[x] \in {"RED", "BLACK"}

\* Property 2: the root is BLACK.
RootIsBlack(T) == T.color[T.root] = "BLACK"

\* Property 3: the sentinel is BLACK.
SentinelIsBlack(T) == T.color[NIL] = "BLACK"

\* Property 4: a RED node has no RED child.
NoRedRed(T) ==
    \A x \in InTree(T) :
        T.color[x] = "RED" =>
            T.color[T.left[x]] # "RED" /\ T.color[T.right[x]] # "RED"

\* Property 5: from every node, all paths down to a sentinel hold the same
\* number of BLACK nodes.
EqualBlackCounts(T) ==
    \A x \in InTree(T) :
        -1 \notin BlackCounts(T, x, {}) /\ Cardinality(BlackCounts(T, x, {})) = 1

\* The five red-black properties and the search-tree ordering.
RedBlack(T) ==
    /\ EveryNodeColored(T)
    /\ RootIsBlack(T)
    /\ SentinelIsBlack(T)
    /\ NoRedRed(T)
    /\ EqualBlackCounts(T)
    /\ Ordered(T)

\* C1 (as claimed): after every rb_insert of a run of rb_insert calls from
\* the empty tree, the tree under the root has the five red-black properties
\* and the search-tree ordering.
C1_InsertKeepsRedBlack == st = "ok" => RedBlack(Cur)

\* A step that is the call rb_delete(z) for a node z of the tree.
IsRbDelete(z) ==
    /\ z \in InTree(Cur)
    /\ used' = used
    /\ Cur' = rb_delete([Cur EXCEPT !.st = "ok"], z)

\* C2 (as claimed): an rb_delete(z) that is given a node of a tree with the
\* five red-black properties and the ordering, and that returns, leaves a
\* tree with the five properties and the ordering.
C2_DeleteKeepsRedBlack ==
    [][\A z \in RbNodes :
          (IsRbDelete(z) /\ RedBlack(Cur) /\ st' = "ok") => RedBlack(Cur')]_vars

\* C10 (as claimed): on a red-black tree, for a key k no node holds, both
\* searches from the root end without raising and give None or the sentinel,
\* and del tree[k] changes nothing.
C10_AbsentKeyNotFound ==
    \A k \in Keys :
        (\A x \in InTree(Cur) : key[x] # k) =>
            /\ tree_search(Cur, root, k).st = "ok"
            /\ tree_search(Cur, root, k).v \in {None, NIL}
            /\ iterative_tree_search(Cur, root, k).st = "ok"
            /\ iterative_tree_search(Cur, root, k).v \in {None, NIL}
            /\ rb_delitem([Cur EXCEPT !.st = "ok"], k) = [Cur EXCEPT !.st = "ok"]


\* C11 (as claimed): on a red-black tree built by rb_insert calls the inorder
\* walk from the root (the iteration order of the tree) ends and yields the
\* keys of the nodes of the tree in ascending order, the sentinel counting
\* as no child.
C11_RbWalkAscending ==
    st = "ok" =>
        LET w == iter(Cur)
        IN  /\ w.st = "ok"
            /\ Len(w.v) = Cardinality(InTree(Cur))
            /\ \A k \in Keys : Count(w.v, k) = Cardinality({x \in InTree(Cur) : key[x] = k})
            /\ \A i \in 1..(Len(w.v) - 1) : w.v[i] <= w.v[i + 1]

\* ------------------------------------------------ longer runs of rb_insert

\* Node objects a client constructs in a run of rb_insert calls alone.
MaxRbInserts == 7

RbRunNodes == 1..MaxRbInserts

\* The state after RedBlackTree(), with room for MaxRbInserts nodes.
InitRbInsertRun ==
    /\ key = [x \in RbRunNodes \cup {NIL} |-> IF x = NIL THEN NilKey ELSE None]
    /\ left = [x \in RbRunNodes \cup {NIL} |-> IF x = NIL THEN NIL ELSE None]
    /\ right = [x \in RbRunNodes \cup {NIL} |-> IF x = NIL THEN NIL ELSE None]
    /\ p = [x \in RbRunNodes \cup {NIL} |-> IF x = NIL THEN NIL ELSE None]
    /\ color = [x \in RbRunNodes \cup {NIL} |-> IF x = NIL THEN "BLACK" ELSE "RED"]
    /\ root = NIL
    /\ n = 0
    /\ used = 0
    /\ st = "ok"
    /\ NoContainer

\* z = RedBlackTree.Node(k); tree.rb_insert(z), z a fresh object.  A call
\* that does not return is the last call of the run.
RbInsertRun ==
    /\ st # "hang"
    /\ used < MaxRbInserts
    /\ \E k \in Keys :
         LET z == used + 1
             T0 == [Cur EXCEPT !.key[z] = k, !.st = "ok"]
         IN  \E R \in {rb_insert(T0, z)} : Set(R)
    /\ used' = used + 1

\* A red-black tree that is only inserted into, up to MaxRbInserts nodes.
SpecRbInsertRun == InitRbInsertRun /\ [][RbInsertRun]_vars

\* C12 (as claimed): every rb_insert on a tree built by earlier rb_insert
\* calls returns and raises nothing.
C12_InsertTerminates == st = "ok"


\* C13 (as claimed): an rb_delete(z) that is given a node of a tree with the
\* five red-black properties and the ordering returns and raises nothing,
\* whichever children z has.
C13_DeleteTerminates ==
    [][\A z \in RbNodes :
          (IsRbDelete(z) /\ RedBlack(Cur)) => st' = "ok"]_vars


\* ------------------------------------- properties, queries on a plain tree

\* The nodes of the subtree rooted at x in inorder: left subtree, x, right
\* subtree.
RECURSIVE InorderNodes(_, _)
InorderNodes(T, x) ==
    IF x = None THEN <<>>
    ELSE InorderNodes(T, T.left[x]) \o <<x>> \o InorderNodes(T, T.right[x])

\* The nodes reached from x by left links alone, and by right links alone.
RECURSIVE LeftSpine(_, _)
LeftSpine(T, x) == IF x = None THEN {} ELSE {x} \cup LeftSpine(T, T.left[x])

RECURSIVE RightSpine(_, _)
RightSpine(T, x) == IF x = None THEN {} ELSE {x} \cup RightSpine(T, T.right[x])

\* C14: on a plain tree that is not empty, tree_minimum(root) is the first
\* node of the inorder walk, tree_successor of every node is the next node
\* of the walk, and tree_successor of the last node is None.
C14_SuccessorIsNextInorder ==
    root # None =>
        LET s == InorderNodes(Cur, root)
        IN  /\ tree_minimum(Cur, root) = Ok(s[1])
            /\ \A i \in 1..(Len(s) - 1) : tree_successor(Cur, s[i]) = Ok(s[i + 1])
            /\ tree_successor(Cur, s[Len(s)]) = Ok(None)
            /\ \A x \in InTree(Cur) :
                   (tree_successor(Cur, x) = Ok(None)) <=> (x = s[Len(s)])

\* C14 witness: a tree with a duplicate key in which one node's successor is
\* the minimum of its right subtree and another node's successor is two
\* parent links up.
C14_Witness ==
    /\ \E x, y \in InTree(Cur) : x # y /\ key[x] = key[y]
    /\ \E x \in InTree(Cur) :
           right[x] # None /\ tree_successor(Cur, x) = Ok(right[x])
    /\ \E x \in InTree(Cur) :
           /\ right[x] = None /\ p[x] # None /\ p[p[x]] # None
           /\ tree_successor(Cur, x) = Ok(p[p[x]])

\* C15: on a plain tree, tree_predecessor of the successor of x is x
\* whenever x has a successor, and tree_predecessor of the first node in
\* inorder is None.
C15_PredecessorInvertsSuccessor ==
    root # None =>
        /\ \A x \in InTree(Cur) :
               LET s == tree_successor(Cur, x)
               IN  (s.st = "ok" /\ s.v # None) => tree_predecessor(Cur, s.v) = Ok(x)
        /\ tree_predecessor(Cur, InorderNodes(Cur, root)[1]) = Ok(None)

\* C15 witness: a node s that is the successor of x, has no left child and
\* lies two parent links below x; and a node with a left child, whose
\* predecessor is the maximum of its left subtree.
C15_Witness ==
    /\ \E x, s \in InTree(Cur) :
           /\ tree_successor(Cur, x) = Ok(s)
           /\ left[s] = None /\ p[s] # None /\ p[p[s]] = x
    /\ \E s \in InTree(Cur) :
           left[s] # None /\ tree_predecessor(Cur, s) = Ok(left[s])

\* C16: on a plain tree, for every node x, tree_minimum(x) is the last node
\* on the chain of left links from x and tree_maximum(x) the last on the
\* chain of right links; they hold the smallest and the largest key of x's
\* subtree; the recursive versions return the same nodes.
C16_MinimumMaximum ==
    \A x \in InTree(Cur) :
        LET lo == tree_minimum(Cur, x)
            hi == tree_maximum(Cur, x)
        IN  /\ lo.st = "ok" /\ hi.st = "ok"
            /\ lo.v \in LeftSpine(Cur, x) /\ left[lo.v] = None
            /\ hi.v \in RightSpine(Cur, x) /\ right[hi.v] = None
            /\ \A y \in SubTree(Cur, x) : key[lo.v] <= key[y] /\ key[y] <= key[hi.v]
            /\ recursive_tree_minimum(Cur, x) = lo
            /\ recursive_tree_maximum(Cur, x) = hi

\* C16 witness: a node whose maximum lies two right links below it and a
\* node whose minimum is its left child.
C16_Witness ==
    /\ \E x \in InTree(Cur) :
           /\ right[x] # None /\ right[right[x]] # None
           /\ tree_maximum(Cur, x) = Ok(right[right[x]])
    /\ \E x \in InTree(Cur) : left[x] # None /\ tree_minimum(Cur, x) = Ok(left[x])


\* ------------------------------------------------ properties, empty tree

\* A call that ended by raising: it neither returned nor ran for ever.
Raised(r) == r.st \notin {"ok", "hang"}

\* C17 (as claimed): on an empty tree (root None, or root the sentinel)
\* tree_minimum(root), tree_maximum(root) and height() each end by raising.
C17_EmptyTreeQueriesRaise ==
    (root \in {None, NIL} /\ InTree(Cur) = {}) =>
        /\ Raised(tree_minimum(Cur, root))
        /\ Raised(tree_maximum(Cur, root))
        /\ Raised(height(Cur, None))


\* ------------------------------------------- properties, delete by key

\* A step that is the call del tree[k] on a plain tree.
IsDelItem(k) ==
    /\ used' = used
    /\ Cur' = delitem([Cur EXCEPT !.st = "ok"], k)

\* C18: del tree[k] on a plain tree raises nothing; when no node holds k it
\* leaves the root, every link and the count as they were; when a node holds
\* k it removes one node, which holds k, and every other node stays.
C18_DelItemFrame ==
    [][\A k \in Keys : IsDelItem(k) =>
          /\ st' = "ok"
          /\ ({x \in InTree(Cur) : key[x] = k} = {}) =>
                 Cur' = [Cur EXCEPT !.st = "ok"]
          /\ ({x \in InTree(Cur) : key[x] = k} # {}) =>
                 \E z \in InTree(Cur) :
                     key[z] = k /\ InTree(Cur') = InTree(Cur) \ {z}]_vars

\* C18 witness: a node holding a key was deleted while a second node holding
\* the same key and a node holding another key stay in the tree, and some
\* key is held by no node.
C18_Witness ==
    /\ \E z \in Deleted : \E x \in InTree(Cur) : key[x] = key[z]
    /\ \E z \in Deleted : \E x \in InTree(Cur) : key[x] # key[z]
    /\ \E k \in Keys : \A x \in InTree(Cur) : key[x] # k


\* ----------------------------------- the red-black tree of the docstring

\* The keys the RedBlackTree docstring inserts (CLRS Figure 13.4), in its
\* order; the last one is the key inserted into the finished figure.
FigKeys == <<11, 2, 14, 1, 7, 15, 5, 8, 4>>

FigNodes == 1..Len(FigKeys)

\* The state after RedBlackTree(), with room for one node per key.
InitRbFig ==
    /\ key = [x \in FigNodes \cup {NIL} |-> IF x = NIL THEN NilKey ELSE None]
    /\ left = [x \in FigNodes \cup {NIL} |-> IF x = NIL THEN NIL ELSE None]
    /\ right = [x \in FigNodes \cup {NIL} |-> IF x = NIL THEN NIL ELSE None]
    /\ p = [x \in FigNodes \cup {NIL} |-> IF x = NIL THEN NIL ELSE None]
    /\ color = [x \in FigNodes \cup {NIL} |-> IF x = NIL THEN "BLACK" ELSE "RED"]
    /\ root = NIL
    /\ n = 0
    /\ used = 0
    /\ st = "ok"
    /\ NoContainer

\* Position in FigKeys of the key inserted last (0 before the first insert).
FigPos == IF used = 0 THEN 0
          ELSE CHOOSE i \in 1..Len(FigKeys) : FigKeys[i] = key[used]

\* tree.rb_insert(RedBlackTree.Node(k)) for a key k of the docstring that
\* comes after the key inserted last: the client inserts the keys in the
\* documented order and may leave keys out.
RbInsertFig ==
    /\ st # "hang"
    /\ \E i \in (FigPos + 1)..Len(FigKeys) :
         LET z == used + 1
             T0 == [Cur EXCEPT !.key[z] = FigKeys[i], !.st = "ok"]
         IN  \E R \in {rb_insert(T0, z)} : Set(R)
    /\ used' = used + 1

SpecRbFig == InitRbFig /\ [][RbInsertFig]_vars

\* The node holding key k (keys are distinct in these runs).
NodeOf(k) == CHOOSE x \in 1..used : key[x] = k

\* The first m keys of FigKeys, and no others, were inserted.
FigInserted(m) == used = m /\ \A i \in 1..m : key[i] = FigKeys[i]

\* x has color c, left child l, right child r and parent q.
IsNode(x, c, l, r, q) ==
    color[x] = c /\ left[x] = l /\ right[x] = r /\ p[x] = q

\* The tree of Figure 13.4(a) before key 4 is inserted.
FigureTree ==
    /\ root = NodeOf(11)
    /\ IsNode(NodeOf(11), "BLACK", NodeOf(2), NodeOf(14), NIL)
    /\ IsNode(NodeOf(2), "RED", NodeOf(1), NodeOf(7), NodeOf(11))
    /\ IsNode(NodeOf(14), "BLACK", NIL, NodeOf(15), NodeOf(11))
    /\ IsNode(NodeOf(1), "BLACK", NIL, NIL, NodeOf(2))
    /\ IsNode(NodeOf(7), "BLACK", NodeOf(5), NodeOf(8), NodeOf(2))
    /\ IsNode(NodeOf(15), "RED", NIL, NIL, NodeOf(14))
    /\ IsNode(NodeOf(5), "RED", NIL, NIL, NodeOf(7))
    /\ IsNode(NodeOf(8), "RED", NIL, NIL, NodeOf(7))

\* The figure with a new RED node z holding 4 linked as the left child of
\* 5, as rb_insert hands it to the fixup.
FigureWith4 ==
    LET z == used + 1
    IN  [Cur EXCEPT !.key[z] = 4, !.p[z] = NodeOf(5), !.left[NodeOf(5)] = z,
                    !.left[z] = NIL, !.right[z] = NIL, !.color[z] = "RED",
                    !.st = "ok"]

\* On FigureWith4 the fixup meets case 1 at node 4 (parent 5 RED and a left
\* child, uncle 8 RED) and moves z to 7; there the parent 2 is RED and a
\* left child, the uncle 14 is BLACK and z is a right child: case 2 rotates
\* left at 2 and case 3 rotates right at 11, after which z.p is BLACK; the
\* outcome, with the root BLACK and the count raised, is what rb_insert
\* gives.
FigureCases ==
    LET z  == used + 1
        L  == FigureWith4
        s1 == insert_case1(L, z, NodeOf(8))
        s2 == insert_case2_left(s1.T, s1.z)
        s3 == insert_case3_left(s2.T, s2.z)
    IN  /\ L.color[L.p[z]] = "RED"
        /\ L.p[z] = L.left[L.p[L.p[z]]]
        /\ L.right[L.p[L.p[z]]] = NodeOf(8) /\ L.color[NodeOf(8)] = "RED"
        /\ insert_fixup_body(L, z) = s1
        /\ s1.z = NodeOf(7)
        /\ s1.T.color[NodeOf(2)] = "RED" /\ s1.T.p[s1.z] = NodeOf(2)
        /\ NodeOf(2) = s1.T.left[NodeOf(11)] /\ s1.T.p[NodeOf(2)] = NodeOf(11)
        /\ s1.T.right[NodeOf(11)] = NodeOf(14) /\ s1.T.color[NodeOf(14)] = "BLACK"
        /\ s1.z = s1.T.right[NodeOf(2)]
        /\ s2.z = NodeOf(2) /\ s2.T = left_rotate(s1.T, NodeOf(2))
        /\ s3.T = right_rotate([s2.T EXCEPT !.color[NodeOf(7)] = "BLACK",
                                            !.color[NodeOf(11)] = "RED"], NodeOf(11))
        /\ insert_fixup_body(s1.T, s1.z) = s3
        /\ s3.T.color[s3.T.p[s3.z]] = "BLACK"
        /\ rb_insert([Cur EXCEPT !.key[z] = 4, !.st = "ok"], z)
             = [s3.T EXCEPT !.color[s3.T.root] = "BLACK", !.n = n + 1]

\* C19: rb_insert of 11, 2, 14, 1, 7, 15, 5, 8 into an empty tree gives the
\* tree of the figure; rb_insert of 4 is then resolved by case 1 at 4, case 2
\* at 2 and case 3 at 11, and ends with 7 the BLACK root, 2 and 11 its RED
\* children, and the five red-black properties holding.
C19_FigureScenario ==
    /\ FigInserted(Len(FigKeys) - 1) => (st = "ok" /\ FigureTree /\ FigureCases)
    /\ FigInserted(Len(FigKeys)) =>
           /\ st = "ok"
           /\ root = NodeOf(7) /\ color[NodeOf(7)] = "BLACK"
           /\ left[NodeOf(7)] = NodeOf(2) /\ color[NodeOf(2)] = "RED"
           /\ right[NodeOf(7)] = NodeOf(11) /\ color[NodeOf(11)] = "RED"
           /\ RedBlack(Cur)
           /\ InTree(Cur) = 1..used

\* C19 witness: all nine keys were inserted in the documented order and the
\* node holding 4 is in the tree.
C19_Witness ==
    /\ FigInserted(Len(FigKeys))
    /\ st = "ok"
    /\ NodeOf(4) \in InTree(Cur)


\* ------------------------------ the plain tree of the docstring, tree_insert

\* The keys the BinarySearchTree docstring inserts (CLRS Figure 12.3), in its
\* order; the last one is the key inserted into the finished figure.
BstFigKeys == <<12, 18, 5, 2, 9, 15, 19, 17, 13>>

BstFigNodes == 1..Len(BstFigKeys)

\* The state after BinarySearchTree(), with room for one node per key.
InitBstFig ==
    /\ key = [x \in BstFigNodes |-> None]
    /\ left = [x \in BstFigNodes |-> None]
    /\ right = [x \in BstFigNodes |-> None]
    /\ p = [x \in BstFigNodes |-> None]
    /\ color = <<>>
    /\ root = None
    /\ n = 0
    /\ used = 0
    /\ st = "ok"
    /\ NoContainer

\* Position in BstFigKeys of the key inserted last (1 before the first
\* insert).
BstFigPos == IF used = 0 THEN 1
             ELSE CHOOSE i \in 1..Len(BstFigKeys) : BstFigKeys[i] = key[used]

\* tree.tree_insert(BinarySearchTree.Node(k)) for a key k of the docstring
\* that is the key inserted last or comes after it: the client inserts the
\* keys in the documented order, may leave keys out and may insert a key
\* more than once.
TreeInsertFig ==
    /\ st # "hang"
    /\ used < Len(BstFigKeys)
    /\ \E i \in BstFigPos..Len(BstFigKeys) :
         LET z == used + 1
             T0 == [Cur EXCEPT !.key[z] = BstFigKeys[i], !.st = "ok"]
         IN  \E R \in {tree_insert(T0, z)} : Set(R)
    /\ used' = used + 1

SpecBstFig == InitBstFig /\ [][TreeInsertFig]_vars

\* All of BstFigKeys were inserted, each once, in the documented order.
BstFigInserted == used = Len(BstFigKeys) /\ \A i \in 1..used : key[i] = BstFigKeys[i]

\* The step is tree_insert of the fresh node z == used'.
IsTreeInsertFig == used' = used + 1

\* The proper ancestors of z in T.
RECURSIVE Ancestors(_, _, _)
Ancestors(T, z, seen) ==
    IF T.p[z] = None \/ T.p[z] \in seen THEN seen
    ELSE Ancestors(T, T.p[z], seen \cup {T.p[z]})

\* C20: tree_insert(z) returns with z a childless node of the tree whose
\* parent y was in the tree before, z taking an empty left slot of y when
\* z.key < y.key and an empty right slot otherwise (the root slot of an
\* empty tree), every other link and key left alone and the count raised;
\* z lies in the left subtree of each ancestor with a larger key and in the
\* right subtree of every other ancestor, so the walk from the root to z is
\* the descent; every node holding z's key has z in its right subtree; and
\* after 12, 18, 5, 2, 9, 15, 19, 17, 13 node 13 is the left child of 15
\* with 15 as its parent.
C20_InsertAttachesAtDescentEnd ==
    [][IsTreeInsertFig =>
        LET z == used'
            T == Cur'
            y == p'[z]
        IN  /\ st' = "ok"
            /\ n' = n + 1
            /\ z \in InTree(T)
            /\ InTree(T) = InTree(Cur) \cup {z}
            /\ left'[z] = None /\ right'[z] = None
            /\ \A x \in 1..used : key'[x] = key[x] /\ p'[x] = p[x]
            /\ IF used = 0
               THEN root' = z /\ y = None /\ left' = left /\ right' = right
               ELSE /\ root' = root
                    /\ y \in InTree(Cur)
                    /\ IF key'[z] < key[y]
                       THEN /\ left[y] = None
                            /\ left' = [left EXCEPT ![y] = z]
                            /\ right' = right
                       ELSE /\ right[y] = None
                            /\ right' = [right EXCEPT ![y] = z]
                            /\ left' = left
            /\ \A a \in Ancestors(T, z, {}) :
                   IF key'[z] < key[a]
                   THEN z \in SubTree(T, left'[a])
                   ELSE z \in SubTree(T, right'[a])
            /\ \A a \in InTree(Cur) :
                   key[a] = key'[z] => z \in SubTree(T, right'[a])
            /\ BstFigInserted' =>
                   /\ left'[NodeOf(15)'] = NodeOf(13)'
                   /\ p'[NodeOf(13)'] = NodeOf(15)'
    ]_vars

\* C20 witness: the nine keys of the example are in, 13 hanging three links
\* below the root.
C20_Witness ==
    /\ BstFigInserted
    /\ st = "ok"
    /\ Ancestors(Cur, NodeOf(13), {}) = {NodeOf(15), NodeOf(18), NodeOf(12)}

\* C20 witness, equal keys: a key was inserted three times; the second copy
\* is the right child of the first and the third the right child of the
\* second.
C20_WitnessEqualKeys ==
    /\ st = "ok"
    /\ \E a, b, c \in 1..used :
        /\ a < b /\ b < c
        /\ key[a] = key[b] /\ key[b] = key[c]
        /\ right[a] = b /\ right[b] = c


\* ------------------------------------- a larger plain tree, tree_delete

\* Most calls of tree_delete in one run of the larger tree.
MaxFigDeletes == 1

\* Keys handed to BinarySearchTree.Node(key) and tree_insert, in this order
\* (the search tree of CLRS Figure 12.2).
DelFigKeys == <<15, 6, 18, 3, 7, 17, 20, 2, 4, 13, 9>>

DelFigNodes == 1..Len(DelFigKeys)

\* The state after BinarySearchTree(), with room for one node per key.
InitDelFig ==
    /\ key = [x \in DelFigNodes |-> None]
    /\ left = [x \in DelFigNodes |-> None]
    /\ right = [x \in DelFigNodes |-> None]
    /\ p = [x \in DelFigNodes |-> None]
    /\ color = <<>>
    /\ root = None
    /\ n = 0
    /\ used = 0
    /\ st = "ok"
    /\ NoContainer

\* Position in DelFigKeys of the key inserted last (0 before the first
\* insert).
DelFigPos == IF used = 0 THEN 0
             ELSE CHOOSE i \in 1..Len(DelFigKeys) : DelFigKeys[i] = key[used]

\* tree.tree_insert(BinarySearchTree.Node(k)) for a key k that comes after
\* the key inserted last: the client inserts the keys in order and may leave
\* keys out.
TreeInsertDelFig ==
    /\ st # "hang"
    /\ \E i \in (DelFigPos + 1)..Len(DelFigKeys) :
         LET z == used + 1
             T0 == [Cur EXCEPT !.key[z] = DelFigKeys[i], !.st = "ok"]
         IN  \E R \in {tree_insert(T0, z)} : Set(R)
    /\ used' = used + 1

\* tree.tree_delete(z) for a node z of the tree.
TreeDeleteDelFig ==
    /\ st # "hang"
    /\ Cardinality(Deleted) < MaxFigDeletes
    /\ \E z \in InTree(Cur) :
         \E R \in {tree_delete([Cur EXCEPT !.st = "ok"], z)} : Set(R)
    /\ UNCHANGED used

NextDelFig == TreeInsertDelFig \/ TreeDeleteDelFig

SpecDelFig == InitDelFig /\ [][NextDelFig]_vars

\* All of DelFigKeys were inserted in order and nothing was deleted.
DelFigBuilt ==
    /\ used = Len(DelFigKeys)
    /\ \A i \in 1..used : key[i] = DelFigKeys[i]
    /\ OnlyInserts

\* C21: tree_delete(z) of a node z with two children whose right child y has
\* no left child (y is z's inorder successor) puts y in z's slot under z's
\* former parent (the root slot when z was the root), makes z's left subtree
\* y's left subtree and leaves y's right subtree with y; z is out of the
\* tree and the ordering holds; in the tree built from 15, 6, 18, 3, 7, 17,
\* 20, 2, 4, 13, 9 deleting 18 makes the search for 18 return None, 20 the
\* right child of 15 and 17 the left child of 20.
C21_DeleteSuccessorIsRightChild ==
    [][\A z \in DelFigNodes :
        (/\ IsTreeDelete(z)
         /\ left[z] # None /\ right[z] # None
         /\ left[right[z]] = None) =>
          LET y == right[z]
              q == p[z]
          IN  /\ st' = "ok"
              /\ p'[y] = q
              /\ IF q = None THEN root' = y
                 ELSE /\ root' = root
                      /\ IF left[q] = z
                         THEN left'[q] = y /\ right'[q] = right[q]
                         ELSE right'[q] = y /\ left'[q] = left[q]
              /\ left'[y] = left[z] /\ p'[left[z]] = y
              /\ right'[y] = right[y]
              /\ SubTree(Cur', left'[y]) = SubTree(Cur, left[z])
              /\ SubTree(Cur', right'[y]) = SubTree(Cur, right[y])
              /\ InTree(Cur') = InTree(Cur) \ {z}
              /\ Ordered(Cur')
              /\ (DelFigBuilt /\ key[z] = 18) =>
                     /\ iterative_tree_search(Cur', root', 18) = Ok(None)
                     /\ right'[NodeOf(15)] = NodeOf(20)
                     /\ left'[NodeOf(20)] = NodeOf(17)
    ]_vars

\* C21 witness: all eleven keys were inserted and then the node holding 18
\* was deleted; 20 sits under 15 and holds 17 on its left.
C21_Witness ==
    /\ used = Len(DelFigKeys)
    /\ \A i \in 1..used : key[i] = DelFigKeys[i]
    /\ Deleted = {NodeOf(18)}
    /\ st = "ok"
    /\ right[NodeOf(15)] = NodeOf(20)
    /\ p[NodeOf(20)] = NodeOf(15)
    /\ left[NodeOf(20)] = NodeOf(17)
    /\ p[NodeOf(17)] = NodeOf(20)


\* ------------------------------------------ red-black tree, further claims

\* C22: after every rb_insert that returned, whatever rb_insert calls came
\* before, the node the tree's root refers to is a key-bearing node, is BLACK
\* and has the sentinel as its parent.
C22_RootBlackUnderSentinel ==
    (st = "ok" /\ used > 0) =>
        /\ root \in 1..used
        /\ color[root] = "BLACK"
        /\ p[root] = NIL


\* C22 witness: after five or more inserts the root is no longer the first
\* node inserted, which now hangs below another node; the root is BLACK
\* under the sentinel.
C22_Witness ==
    /\ st = "ok"
    /\ used >= 5
    /\ root \in 2..used
    /\ p[1] \in 1..used
    /\ color[root] = "BLACK"
    /\ p[root] = NIL

\* Runs of rb_insert and rb_delete on two keys: node objects a client
\* constructs, and the largest key.
MaxFixNodes == 6

MaxFixKey == 2

FixNodes == 1..MaxFixNodes

\* The state after RedBlackTree(), with room for MaxFixNodes nodes.
InitRbFix ==
    /\ key = [x \in FixNodes \cup {NIL} |-> IF x = NIL THEN NilKey ELSE None]
    /\ left = [x \in FixNodes \cup {NIL} |-> IF x = NIL THEN NIL ELSE None]
    /\ right = [x \in FixNodes \cup {NIL} |-> IF x = NIL THEN NIL ELSE None]
    /\ p = [x \in FixNodes \cup {NIL} |-> IF x = NIL THEN NIL ELSE None]
    /\ color = [x \in FixNodes \cup {NIL} |-> IF x = NIL THEN "BLACK" ELSE "RED"]
    /\ root = NIL
    /\ n = 0
    /\ used = 0
    /\ st = "ok"
    /\ NoContainer

\* z = RedBlackTree.Node(k); tree.rb_insert(z), z a fresh object.
RbInsertFix ==
    /\ st # "hang"
    /\ used < MaxFixNodes
    /\ \E k \in 1..MaxFixKey :
         LET z == used + 1
             T0 == [Cur EXCEPT !.key[z] = k, !.st = "ok"]
         IN  \E R \in {rb_insert(T0, z)} : Set(R)
    /\ used' = used + 1

\* tree.rb_delete(z) for a node z of the tree.
RbDeleteFix ==
    /\ st # "hang"
    /\ \E z \in InTree(Cur) :
         \E R \in {rb_delete([Cur EXCEPT !.st = "ok"], z)} : Set(R)
    /\ UNCHANGED used

NextRbFix == RbInsertFix \/ RbDeleteFix

SpecRbFix == InitRbFix /\ [][NextRbFix]_vars

\* C23 (as claimed): the sentinel is BLACK in every state the calls leave
\* behind, for any sequence of rb_insert and rb_delete calls.
C23_SentinelStaysBlack == color[NIL] = "BLACK"


\* Numbers of BLACK nodes on the paths from x, exclusive, down to a
\* descendant sentinel, inclusive (-1 for a path that meets no sentinel).
BlackBelow(T, x) ==
    {IF h = -1 THEN -1
     ELSE h - (IF T.color[x] = "BLACK" THEN 1 ELSE 0)
            + (IF T.color[NIL] = "BLACK" THEN 1 ELSE 0) :
        h \in BlackCounts(T, x, {})}

\* C24 (as claimed): in a tree built by rb_insert calls, black_height(x)
\* is, for every node x of the tree, the number of BLACK nodes on every path
\* from x (exclusive) down to a sentinel (inclusive), and black_height()
\* gives the value of the root.
C24_BlackHeightIsPathCount ==
    st = "ok" =>
        /\ \A x \in InTree(Cur) :
               /\ black_height(Cur, x).st = "ok"
               /\ BlackBelow(Cur, x) = {black_height(Cur, x).v}
        /\ black_height(Cur, None) = black_height(Cur, root)


\* ------------------------------------------- properties, height and walks

\* Edges on the longest downward path from x to a node without children.
RECURSIVE LongestPath(_, _, _)
LongestPath(T, x, anc) ==
    LET c == {y \in {T.left[x], T.right[x]} : y # None /\ y \notin anc}
        h == {LongestPath(T, y, anc \cup {x}) : y \in c}
    IN  IF c = {} THEN 0 ELSE 1 + CHOOSE m \in h : \A k \in h : k <= m

\* C25 (as claimed): on a non-empty plain tree height(x) returns the number
\* of edges on the longest downward path from x to a leaf, and height()
\* returns that number for the root.
C25_HeightIsLongestPath ==
    (st = "ok" /\ root # None) =>
        /\ \A x \in InTree(Cur) : height(Cur, x) = Ok(LongestPath(Cur, x, {}))
        /\ height(Cur, None) = Ok(LongestPath(Cur, root, {}))


\* The keys the BinarySearchTree docstring inserts into BST_a (CLRS Figure
\* 12.1 (a)), in its order.
WalkFigKeys == <<6, 5, 7, 2, 5, 8>>

WalkFigNodes == 1..Len(WalkFigKeys)

\* The state after BinarySearchTree(), with room for one node per key.
InitWalkFig ==
    /\ key = [x \in WalkFigNodes |-> None]
    /\ left = [x \in WalkFigNodes |-> None]
    /\ right = [x \in WalkFigNodes |-> None]
    /\ p = [x \in WalkFigNodes |-> None]
    /\ color = <<>>
    /\ root = None
    /\ n = 0
    /\ used = 0
    /\ st = "ok"
    /\ NoContainer

\* tree.tree_insert(BinarySearchTree.Node(k)) for the next key k of the
\* docstring.
TreeInsertWalkFig ==
    /\ st # "hang"
    /\ used < Len(WalkFigKeys)
    /\ LET z == used + 1
           T0 == [Cur EXCEPT !.key[z] = WalkFigKeys[z], !.st = "ok"]
       IN  \E R \in {tree_insert(T0, z)} : Set(R)
    /\ used' = used + 1

\* tree.tree_delete(z) for a node z of the tree.
TreeDeleteWalkFig ==
    /\ st # "hang"
    /\ \E z \in InTree(Cur) :
         \E R \in {tree_delete([Cur EXCEPT !.st = "ok"], z)} : Set(R)
    /\ UNCHANGED used

NextWalkFig == TreeInsertWalkFig \/ TreeDeleteWalkFig

SpecWalkFig == InitWalkFig /\ [][NextWalkFig]_vars

\* Sequence s holds exactly the keys of the nodes in S, once per node.
HoldsKeysOf(s, S) ==
    /\ Len(s) = Cardinality(S)
    /\ \A k \in {key[y] : y \in S} :
           Count(s, k) = Cardinality({y \in S : key[y] = k})

\* The part of s from position a to position b.
Part(s, a, b) == [i \in 1..(b - a + 1) |-> s[a + i - 1]]

\* C26: on a plain tree preorder_tree_walk(x), for every node x of the tree,
\* yields x.key, then exactly the keys of x's left subtree, then exactly the
\* keys of x's right subtree; postorder_tree_walk(x) yields the keys of the
\* left subtree, then those of the right subtree, then x.key; each node's
\* key is yielded once; a walk from None yields nothing; and on the tree
\* built from 6, 5, 7, 2, 5, 8 the walks from the root yield 6 5 2 5 7 8
\* and 2 5 5 8 7 6.
C26_PreorderPostorder ==
    /\ preorder_tree_walk(Cur, None) = Ok(<<>>)
    /\ postorder_tree_walk(Cur, None) = Ok(<<>>)
    /\ \A x \in InTree(Cur) :
         LET pre  == preorder_tree_walk(Cur, x)
             post == postorder_tree_walk(Cur, x)
             L    == SubTree(Cur, left[x])
             R    == SubTree(Cur, right[x])
             nl   == Cardinality(L)
             m    == 1 + nl + Cardinality(R)
         IN  /\ pre.st = "ok" /\ post.st = "ok"
             /\ Len(pre.v) = m /\ Len(post.v) = m
             /\ pre.v[1] = key[x]
             /\ HoldsKeysOf(Part(pre.v, 2, 1 + nl), L)
             /\ HoldsKeysOf(Part(pre.v, 2 + nl, m), R)
             /\ HoldsKeysOf(Part(post.v, 1, nl), L)
             /\ HoldsKeysOf(Part(post.v, nl + 1, m - 1), R)
             /\ post.v[m] = key[x]
             /\ Part(pre.v, 2, 1 + nl) = preorder_tree_walk(Cur, left[x]).v
             /\ Part(pre.v, 2 + nl, m) = preorder_tree_walk(Cur, right[x]).v
             /\ Part(post.v, 1, nl) = postorder_tree_walk(Cur, left[x]).v
             /\ Part(post.v, nl + 1, m - 1) = postorder_tree_walk(Cur, right[x]).v
    /\ (used = Len(WalkFigKeys) /\ OnlyInserts) =>
         /\ preorder_tree_walk(Cur, root) = Ok(<<6, 5, 2, 5, 7, 8>>)
         /\ postorder_tree_walk(Cur, root) = Ok(<<2, 5, 5, 8, 7, 6>>)

\* C26 witness: the six keys of the docstring are in the tree and nothing
\* was deleted; the root has two children and the duplicate key hangs in a
\* left subtree.
C26_Witness ==
    /\ used = Len(WalkFigKeys)
    /\ OnlyInserts
    /\ st = "ok"
    /\ left[root] # None /\ right[root] # None
    /\ \E x, y \in SubTree(Cur, left[root]) : x # y /\ key[x] = key[y]


\* ------------------------------------------------------------------ Stack

\* Largest capacity n of a Stack a client constructs.
MaxStackCap == 4

\* Elements pushed and enqueued are the integers 1..MaxElem.
MaxElem == 2

Elems == 1..MaxElem

\* The Stack object as one record.
CurStack == [S |-> stackS, n |-> n, top |-> top]

\* Stack.__len__().
Stack_len(s) == s.top + 1

\* Stack.stack_empty().
stack_empty(s) == s.top = -1

\* A push that stores x without moving top.
Stack_push_keeps_top(s, x) ==
    IF s.top + 1 >= s.n THEN [s |-> s, st |-> "StackOverflowError"]
    ELSE [s |-> [s EXCEPT !.S[s.top + 1] = x], st |-> "ok"]

\* Stack.push(x): the stack after the call and how the call ended.
Stack_push(s, x) ==
    IF s.top + 1 >= s.n THEN [s |-> s, st |-> "StackOverflowError"]
    ELSE [s |-> [s EXCEPT !.top = s.top + 1, !.S[s.top + 1] = x], st |-> "ok"]

\* Stack.pop(): the stack after the call, how the call ended and the value
\* returned, S[top + 1] for the decremented top.
Stack_pop(s) ==
    IF stack_empty(s) THEN [s |-> s, st |-> "StackUnderflowError", v |-> None]
    ELSE [s |-> [s EXCEPT !.top = s.top - 1], st |-> "ok", v |-> s.S[(s.top - 1) + 1]]

\* A run on a Stack has no tree, no node and no Queue.
NoTree ==
    /\ key = <<>> /\ left = <<>> /\ right = <<>> /\ p = <<>> /\ color = <<>>
    /\ root = None
    /\ used = 0

\* The state after Stack(c): an array of c cells holding None, top = -1.
InitStack ==
    /\ NoTree
    /\ \E c \in 0..MaxStackCap :
         /\ n = c
         /\ stackS = [i \in 0..(c - 1) |-> None]
    /\ top = -1
    /\ queueQ = None /\ head = None /\ tail = None
    /\ held = <<>>
    /\ st = "ok"

\* The call's outcome r becomes the next state of the Stack.
SetStack(r) ==
    /\ stackS' = r.s.S
    /\ top' = r.s.top
    /\ st' = r.st
    /\ UNCHANGED <<key, left, right, p, color, root, n, used, queueQ, head, tail>>

\* s.push(x); a push that returned put x in.
Push ==
    \E x \in Elems :
        \E r \in {Stack_push(CurStack, x)} :
            /\ SetStack(r)
            /\ held' = IF r.st = "ok" THEN Append(held, x) ELSE held

\* s.pop(); a pop that returned took the newest element held out.
Pop ==
    \E r \in {Stack_pop(CurStack)} :
        /\ SetStack(r)
        /\ held' = IF r.st = "ok" THEN SubSeq(held, 1, Len(held) - 1) ELSE held

NextStack == Push \/ Pop

SpecStack == InitStack /\ [][NextStack]_vars

\* The step is the call push(x).
IsPush(x) ==
    \E r \in {Stack_push(CurStack, x)} :
        /\ stackS' = r.s.S /\ top' = r.s.top /\ st' = r.st
        /\ held' = IF r.st = "ok" THEN Append(held, x) ELSE held

\* The step is the call pop().
IsPop ==
    \E r \in {Stack_pop(CurStack)} :
        /\ stackS' = r.s.S /\ top' = r.s.top /\ st' = r.st
        /\ held' = IF r.st = "ok" THEN SubSeq(held, 1, Len(held) - 1) ELSE held

\* The cells S[0..top] are the elements held, oldest first; len(stack) is
\* their number, within 0..n; stack_empty() tells whether there is none.
StackHoldsHistory ==
    /\ top \in -1..(n - 1)
    /\ Stack_len(CurStack) = Len(held)
    /\ Stack_len(CurStack) \in 0..n
    /\ \A i \in 1..Len(held) : stackS[i - 1] = held[i]
    /\ stack_empty(CurStack) <=> (held = <<>>)

\* A push on a stack holding fewer than n elements returns and adds x; on a
\* full stack it raises StackOverflowError and changes nothing.
PushContract ==
    \A x \in Elems : IsPush(x) =>
        IF Len(held) < n
        THEN st' = "ok" /\ held' = Append(held, x) /\ stackS'[top'] = x
        ELSE st' = "StackOverflowError" /\ stackS' = stackS /\ top' = top

\* A pop on a stack holding an element returns the newest one held and
\* keeps the others; on an empty stack it raises StackUnderflowError and
\* changes nothing.
PopContract ==
    IsPop =>
        IF Len(held) > 0
        THEN /\ st' = "ok"
             /\ Stack_pop(CurStack).v = held[Len(held)]
             /\ held' = SubSeq(held, 1, Len(held) - 1)
        ELSE st' = "StackUnderflowError" /\ stackS' = stackS /\ top' = top

\* C27: Stack(n) is a bounded LIFO: S[0..top] always holds the elements
\* pushed and not yet popped, oldest first; len(stack) is their number and
\* stays within 0..n; every pop that returns gives the most recently pushed
\* element not yet popped; push on a full stack raises StackOverflowError
\* and pop on an empty stack raises StackUnderflowError, both leaving the
\* array and top unchanged.
C27_StackIsBoundedLifo ==
    /\ []StackHoldsHistory
    /\ [][PushContract /\ PopContract]_vars

\* C27 witness: a stack of the largest capacity holds two different
\* elements, and the cell above top still holds an element that was popped.
C27_Witness ==
    /\ n = MaxStackCap
    /\ st = "ok"
    /\ Len(held) = 2
    /\ held[1] # held[2]
    /\ top = 1
    /\ stackS[top + 1] \in Elems


\* ------------------------------------------------------------------ Queue

\* Largest capacity n of a Queue a client constructs.
MaxQueueCap == 3

\* The Queue object as one record.
CurQueue == [Q |-> queueQ, n |-> n, head |-> head, tail |-> tail]

\* Python's list index: A[i] for a list of m cells reads cell i, or cell
\* m + i for a negative i, and raises IndexError outside -m..m-1.
InRange(m, i) == i \in (0 - m)..(m - 1)

Cell(m, i) == IF i < 0 THEN m + i ELSE i

\* Queue.__len__().
Queue_len(q) ==
    IF q.tail >= q.head THEN q.tail - q.head
    ELSE q.tail + (q.n - q.head)

\* Queue.queue_empty().
queue_empty(q) == q.head = q.tail

\* Queue.enqueue(x): the queue after the call and how the call ended.
enqueue(q, x) ==
    IF q.head = (q.tail + 1) % q.n THEN [q |-> q, st |-> "QueueOverflowError"]
    ELSE IF ~InRange(q.n, q.tail) THEN [q |-> q, st |-> "IndexError"]
    ELSE [q |-> [q EXCEPT !.Q[Cell(q.n, q.tail)] = x,
                          !.tail = IF q.tail = q.n - 1 THEN 0 ELSE q.tail + 1],
          st |-> "ok"]

\* Queue.dequeue(): the queue after the call, how the call ended and the
\* value returned.  head goes back to 0 when it equals n.
dequeue(q) ==
    IF queue_empty(q) THEN [q |-> q, st |-> "QueueUnderflowError", v |-> None]
    ELSE IF ~InRange(q.n, q.head) THEN [q |-> q, st |-> "IndexError", v |-> None]
    ELSE [q |-> [q EXCEPT !.head = IF q.head = q.n THEN 0 ELSE q.head + 1],
          st |-> "ok", v |-> q.Q[Cell(q.n, q.head)]]

\* The state after Queue(c, h): an array of c cells holding None, head and
\* tail at h.
InitQueue ==
    /\ NoTree
    /\ \E c \in 1..MaxQueueCap :
         /\ n = c
         /\ queueQ = [i \in 0..(c - 1) |-> None]
         /\ \E h \in 0..(c - 1) : head = h /\ tail = h
    /\ stackS = None /\ top = None
    /\ held = <<>>
    /\ st = "ok"

\* The call's outcome r becomes the next state of the Queue.
SetQueue(r) ==
    /\ queueQ' = r.q.Q
    /\ head' = r.q.head
    /\ tail' = r.q.tail
    /\ st' = r.st
    /\ UNCHANGED <<key, left, right, p, color, root, n, used, stackS, top>>

\* q.enqueue(x); an enqueue that returned put x in.  The history is kept to
\* n + 1 elements, more than a queue of n cells can hold.
Enqueue ==
    /\ Len(held) <= n
    /\ \E x \in Elems :
        \E r \in {enqueue(CurQueue, x)} :
            /\ SetQueue(r)
            /\ held' = IF r.st = "ok" THEN Append(held, x) ELSE held

\* q.dequeue(); a dequeue that returned took the oldest element held out.
Dequeue ==
    \E r \in {dequeue(CurQueue)} :
        /\ SetQueue(r)
        /\ held' = IF r.st = "ok" THEN Tail(held) ELSE held

NextQueue == Enqueue \/ Dequeue

SpecQueue == InitQueue /\ [][NextQueue]_vars

\* The step is the call dequeue().
IsDequeue ==
    \E r \in {dequeue(CurQueue)} :
        /\ queueQ' = r.q.Q /\ head' = r.q.head /\ tail' = r.q.tail /\ st' = r.st
        /\ held' = IF r.st = "ok" THEN Tail(held) ELSE held

\* head and tail index cells of the array, len(queue) is the number of
\* elements held and queue_empty() tells whether there is none.
QueueHoldsHistory ==
    /\ head \in 0..(n - 1)
    /\ tail \in 0..(n - 1)
    /\ Queue_len(CurQueue) = Len(held)
    /\ queue_empty(CurQueue) <=> (held = <<>>)

\* A dequeue that returns gives the oldest element held.
DequeueContract ==
    (IsDequeue /\ st' = "ok") =>
        /\ Len(held) > 0
        /\ dequeue(CurQueue).v = held[1]

\* C28 (as claimed): Queue(n, head) is a circular FIFO: head and tail stay
\* within 0..n-1 whatever enqueue and dequeue calls are made, len(queue) is
\* the number of elements enqueued and not yet dequeued, queue_empty() holds
\* exactly when there is none, and every dequeue that returns gives the
\* oldest of them.
C28_QueueIsCircularFifo ==
    /\ []QueueHoldsHistory
    /\ [][DequeueContract]_vars


\* -------------------------------------------------------------- rotations

\* Node objects a client constructs in a run with rotations, and the largest
\* key of these runs.
MaxRotNodes == 4

MaxRotKey == 2

RotNodes == 1..MaxRotNodes

\* Every child link of the tree is answered by the child's parent link, the
\* root's parent is the sentinel, no node is both children of a node, and
\* the sentinel's own children are the sentinel.
LinksConsistent(T) ==
    /\ T.root # NIL => T.p[T.root] = NIL
    /\ T.left[NIL] = NIL /\ T.right[NIL] = NIL
    /\ \A x \in InTree(T) :
         /\ T.left[x] # NIL => T.p[T.left[x]] = x
         /\ T.right[x] # NIL => T.p[T.right[x]] = x
         /\ T.left[x] = T.right[x] => T.left[x] = NIL

\* A well-formed tree: consistent links and the search-tree ordering.
WellFormed(T) == LinksConsistent(T) /\ Ordered(T)

\* The state after RedBlackTree(), with room for MaxRotNodes nodes.
InitRot ==
    /\ key = [x \in RotNodes \cup {NIL} |-> IF x = NIL THEN NilKey ELSE None]
    /\ left = [x \in RotNodes \cup {NIL} |-> IF x = NIL THEN NIL ELSE None]
    /\ right = [x \in RotNodes \cup {NIL} |-> IF x = NIL THEN NIL ELSE None]
    /\ p = [x \in RotNodes \cup {NIL} |-> IF x = NIL THEN NIL ELSE None]
    /\ color = [x \in RotNodes \cup {NIL} |-> IF x = NIL THEN "BLACK" ELSE "RED"]
    /\ root = NIL
    /\ n = 0
    /\ used = 0
    /\ st = "ok"
    /\ NoContainer

\* z = RedBlackTree.Node(k); tree.rb_insert(z) on a well-formed tree.
RotInsert ==
    /\ st = "ok"
    /\ WellFormed(Cur)
    /\ used < MaxRotNodes
    /\ \E k \in 1..MaxRotKey :
         LET z == used + 1
             T0 == [Cur EXCEPT !.key[z] = k]
         IN  \E R \in {rb_insert(T0, z)} : Set(R)
    /\ used' = used + 1

\* tree._left_rotate(x) for a node x of a well-formed tree whose right child
\* is not the sentinel.
LeftRotate ==
    /\ st = "ok"
    /\ WellFormed(Cur)
    /\ \E x \in InTree(Cur) :
         /\ ~isnil(right[x])
         /\ \E R \in {left_rotate(Cur, x)} : Set(R)
    /\ UNCHANGED used

\* tree._right_rotate(x) for a node x of a well-formed tree whose left child
\* is not the sentinel.
RightRotate ==
    /\ st = "ok"
    /\ WellFormed(Cur)
    /\ \E x \in InTree(Cur) :
         /\ ~isnil(left[x])
         /\ \E R \in {right_rotate(Cur, x)} : Set(R)
    /\ UNCHANGED used

NextRot == RotInsert \/ LeftRotate \/ RightRotate

SpecRot == InitRot /\ [][NextRot]_vars

\* The nodes below x in inorder (the sentinel holds none).
RECURSIVE RbInorder(_, _, _)
RbInorder(T, x, anc) ==
    IF x = NIL \/ x = None \/ x \in anc THEN <<>>
    ELSE RbInorder(T, T.left[x], anc \cup {x}) \o <<x>>
         \o RbInorder(T, T.right[x], anc \cup {x})

\* The keys of the whole tree in inorder.
RbInorderKeys(T) ==
    LET w == RbInorder(T, T.root, {}) IN [i \in 1..Len(w) |-> T.key[w[i]]]

\* The step is _right_rotate(x) on a well-formed tree, x's left child not
\* the sentinel.
IsRightRotate(x) ==
    /\ used' = used
    /\ st = "ok"
    /\ x \in InTree(Cur) /\ left[x] # NIL
    /\ Cur' = right_rotate(Cur, x)
    /\ WellFormed(Cur)

\* The step is _left_rotate(x) on a well-formed tree, x's right child not
\* the sentinel.
IsLeftRotate(x) ==
    /\ used' = used
    /\ st = "ok"
    /\ x \in InTree(Cur) /\ right[x] # NIL
    /\ Cur' = left_rotate(Cur, x)
    /\ WellFormed(Cur)

\* C29 (as claimed): _right_rotate(x) on a well-formed tree, y = x.left not
\* the sentinel, keeps the inorder key sequence of the tree and leaves the
\* links consistent: y is in x's slot under x's former parent (or is the
\* root), x is y's right child and y's former right subtree is x's left
\* subtree.
C29_RightRotate ==
    [][\A x \in RotNodes : IsRightRotate(x) =>
        LET y == left[x]
            q == p[x]
        IN  /\ RbInorderKeys(Cur') = RbInorderKeys(Cur)
            /\ InTree(Cur') = InTree(Cur)
            /\ LinksConsistent(Cur')
            /\ p'[y] = q
            /\ IF q = NIL THEN root' = y
               ELSE /\ root' = root
                    /\ IF left[q] = x
                       THEN left'[q] = y /\ right'[q] = right[q]
                       ELSE right'[q] = y /\ left'[q] = left[q]
            /\ right'[y] = x /\ p'[x] = y
            /\ left'[x] = right[y]
            /\ right[y] # NIL => p'[right[y]] = x
            /\ left'[y] = left[y] /\ right'[x] = right[x]
    ]_vars

\* C30: _left_rotate(x) on a well-formed tree, y = x.right not the
\* sentinel, keeps the inorder key sequence of the tree and leaves the links
\* consistent: y is in x's slot under x's former parent (or is the root), x
\* is y's left child and y's former left subtree is x's right subtree; no
\* color changes, and the sentinel keeps its key, its children and its
\* color.
C30_LeftRotate ==
    [][\A x \in RotNodes : IsLeftRotate(x) =>
        LET y == right[x]
            q == p[x]
        IN  /\ RbInorderKeys(Cur') = RbInorderKeys(Cur)
            /\ InTree(Cur') = InTree(Cur)
            /\ WellFormed(Cur')
            /\ p'[y] = q
            /\ IF q = NIL THEN root' = y
               ELSE /\ root' = root
                    /\ IF left[q] = x
                       THEN left'[q] = y /\ right'[q] = right[q]
                       ELSE right'[q] = y /\ left'[q] = left[q]
            /\ left'[y] = x /\ p'[x] = y
            /\ right'[x] = left[y]
            /\ left[y] # NIL => p'[left[y]] = x
            /\ right'[y] = right[y] /\ left'[x] = left[x]
            /\ color' = color
            /\ key' = key
            /\ left'[NIL] = NIL /\ right'[NIL] = NIL
            /\ n' = n /\ st' = st
    ]_vars

\* C30 witness: a well-formed tree of three nodes hanging in one left
\* chain below the root, a shape that rb_insert calls alone never leave and
\* that a left rotation produces.
C30_Witness ==
    /\ st = "ok"
    /\ WellFormed(Cur)
    /\ Cardinality(InTree(Cur)) = 3
    /\ right[root] = NIL /\ left[root] # NIL
    /\ right[left[root]] = NIL /\ left[left[root]] # NIL


\* ------------------------------------------------------------- transplant

\* Node objects a client constructs in a run that calls transplant or
\* rb_transplant directly, and the largest key of these runs.
MaxTrNodes == 3

MaxTrKey == 2

TrNodes == 1..MaxTrNodes

\* The tree is a plain BinarySearchTree (its nodes carry no color).
IsPlain == color = <<>>

\* Plain tree: every child link is answered by the child's parent link, the
\* root's parent is None and no node is both children of a node.
PlainLinksConsistent(T) ==
    /\ T.root # None => T.p[T.root] = None
    /\ \A x \in InTree(T) :
         /\ T.left[x] # None => T.p[T.left[x]] = x
         /\ T.right[x] # None => T.p[T.right[x]] = x
         /\ T.left[x] = T.right[x] => T.left[x] = None

\* The state after BinarySearchTree() or after RedBlackTree(), with room
\* for MaxTrNodes nodes.
InitTransplant ==
    /\ \/ /\ key = [x \in TrNodes |-> None]
          /\ left = [x \in TrNodes |-> None]
          /\ right = [x \in TrNodes |-> None]
          /\ p = [x \in TrNodes |-> None]
          /\ color = <<>>
          /\ root = None
       \/ /\ key = [x \in TrNodes \cup {NIL} |-> IF x = NIL THEN NilKey ELSE None]
          /\ left = [x \in TrNodes \cup {NIL} |-> IF x = NIL THEN NIL ELSE None]
          /\ right = [x \in TrNodes \cup {NIL} |-> IF x = NIL THEN NIL ELSE None]
          /\ p = [x \in TrNodes \cup {NIL} |-> IF x = NIL THEN NIL ELSE None]
          /\ color = [x \in TrNodes \cup {NIL} |->
                          IF x = NIL THEN "BLACK" ELSE "RED"]
          /\ root = NIL
    /\ n = 0
    /\ used = 0
    /\ st = "ok"
    /\ NoContainer

\* z = BinarySearchTree.Node(k); tree.tree_insert(z) on a plain tree that
\* holds every node constructed so far.
TrTreeInsert ==
    /\ IsPlain
    /\ st = "ok"
    /\ OnlyInserts
    /\ used < MaxTrNodes
    /\ \E k \in 1..MaxTrKey :
         LET z == used + 1
             T0 == [Cur EXCEPT !.key[z] = k]
         IN  \E R \in {tree_insert(T0, z)} : Set(R)
    /\ used' = used + 1

\* z = RedBlackTree.Node(k); tree.rb_insert(z) on a red-black tree that
\* holds every node constructed so far.
TrRbInsert ==
    /\ ~IsPlain
    /\ st = "ok"
    /\ OnlyInserts
    /\ used < MaxTrNodes
    /\ \E k \in 1..MaxTrKey :
         LET z == used + 1
             T0 == [Cur EXCEPT !.key[z] = k]
         IN  \E R \in {rb_insert(T0, z)} : Set(R)
    /\ used' = used + 1

\* tree.transplant(u, v) on a well-formed plain tree: u a node of the tree,
\* v None or any node the client holds.
Transplant ==
    /\ IsPlain
    /\ st = "ok"
    /\ PlainLinksConsistent(Cur)
    /\ \E u \in InTree(Cur), v \in (1..used) \cup {None} :
         \E R \in {transplant(Cur, u, v)} : Set(R)
    /\ UNCHANGED used

\* tree.rb_transplant(u, v) on a well-formed red-black tree: u a node of the
\* tree, v the sentinel or any node the client holds.
RbTransplant ==
    /\ ~IsPlain
    /\ st = "ok"
    /\ LinksConsistent(Cur)
    /\ \E u \in InTree(Cur), v \in (1..used) \cup {NIL} :
         \E R \in {rb_transplant(Cur, u, v)} : Set(R)
    /\ UNCHANGED used

NextTransplant == TrTreeInsert \/ TrRbInsert \/ Transplant \/ RbTransplant

SpecTransplant == InitTransplant /\ [][NextTransplant]_vars

\* The step is transplant(u, v) on a well-formed plain tree.
IsTransplant(u, v) ==
    /\ used' = used
    /\ IsPlain
    /\ st = "ok"
    /\ u \in InTree(Cur) /\ v \in (1..used) \cup {None}
    /\ Cur' = transplant(Cur, u, v)
    /\ PlainLinksConsistent(Cur)

\* The step is rb_transplant(u, v) on a well-formed red-black tree.
IsRbTransplant(u, v) ==
    /\ used' = used
    /\ ~IsPlain
    /\ st = "ok"
    /\ u \in InTree(Cur) /\ v \in (1..used) \cup {NIL}
    /\ Cur' = rb_transplant(Cur, u, v)
    /\ LinksConsistent(Cur)

\* What both transplants do to the slot that held u, q being u.p and none
\* the absent parent (None or the sentinel): the root or the child slot of q
\* that held u refers to v, and no other child link changes.
SlotOfURefersToV(u, v, q, none) ==
    IF q = none
    THEN root' = v /\ left' = left /\ right' = right
    ELSE /\ root' = root
         /\ IF left[q] = u
            THEN left' = [left EXCEPT ![q] = v] /\ right' = right
            ELSE right' = [right EXCEPT ![q] = v] /\ left' = left

\* C31: transplant(u, v) on a plain tree makes the root (u.p None) or the
\* slot of u.p that held u refer to v, sets v.p to u.p only when v is not
\* None, and changes nothing else (u's own p, left and right, the children
\* of a v that is not u's parent, every other node, the keys and the node
\* count); rb_transplant(u, v) does the same but assigns v.p = u.p
\* unconditionally, so the sentinel's p is overwritten when v is the
\* sentinel.
C31_TransplantFrame ==
    [][/\ \A u \in TrNodes, v \in TrNodes \cup {None} : IsTransplant(u, v) =>
            /\ SlotOfURefersToV(u, v, p[u], None)
            /\ p' = IF v # None THEN [p EXCEPT ![v] = p[u]] ELSE p
            /\ p'[u] = p[u] /\ left'[u] = left[u] /\ right'[u] = right[u]
            /\ (v # None /\ v # p[u]) =>
                   left'[v] = left[v] /\ right'[v] = right[v]
            /\ key' = key /\ n' = n /\ st' = st /\ color' = color
       /\ \A u \in TrNodes, v \in TrNodes \cup {NIL} : IsRbTransplant(u, v) =>
            /\ SlotOfURefersToV(u, v, p[u], NIL)
            /\ p' = [p EXCEPT ![v] = p[u]]
            /\ v = NIL => p'[NIL] = p[u]
            /\ (v # u => p'[u] = p[u])
            /\ left'[u] = left[u] /\ right'[u] = right[u]
            /\ v # p[u] => left'[v] = left[v] /\ right'[v] = right[v]
            /\ key' = key /\ n' = n /\ st' = st /\ color' = color
    ]_vars

\* C31 witness: a red-black tree of three nodes built by rb_insert alone
\* from which rb_transplant(u, sentinel) cut a child u of the root, leaving
\* the sentinel's p at the root.
C31_Witness ==
    /\ ~IsPlain
    /\ used = 3
    /\ root # NIL
    /\ Cardinality(InTree(Cur)) = 2
    /\ p[NIL] = root

\* A plain tree of three nodes from which transplant(u, None) cut a child u
\* of the root: u still refers to the root as its parent.
C31_WitnessPlain ==
    /\ IsPlain
    /\ used = 3
    /\ root # None
    /\ Cardinality(InTree(Cur)) = 2
    /\ \E u \in (1..used) \ InTree(Cur) : p[u] = root


\* ------------------------------------------------- inserting a used node

\* Node objects a client constructs in a run that inserts nodes whose fields
\* are not the defaults, and the largest key of these runs.
MaxReNodes == 3

MaxReKey == 2

ReNodes == 1..MaxReNodes

\* Insert calls in one of these runs (_n counts them and is never lowered).
MaxReInserts == 4

\* The state after BinarySearchTree() or after RedBlackTree(), with room
\* for MaxReNodes nodes.
InitReinsert ==
    /\ \/ /\ key = [x \in ReNodes |-> None]
          /\ left = [x \in ReNodes |-> None]
          /\ right = [x \in ReNodes |-> None]
          /\ p = [x \in ReNodes |-> None]
          /\ color = <<>>
          /\ root = None
       \/ /\ key = [x \in ReNodes \cup {NIL} |-> IF x = NIL THEN NilKey ELSE None]
          /\ left = [x \in ReNodes \cup {NIL} |-> IF x = NIL THEN NIL ELSE None]
          /\ right = [x \in ReNodes \cup {NIL} |-> IF x = NIL THEN NIL ELSE None]
          /\ p = [x \in ReNodes \cup {NIL} |-> IF x = NIL THEN NIL ELSE None]
          /\ color = [x \in ReNodes \cup {NIL} |->
                          IF x = NIL THEN "BLACK" ELSE "RED"]
          /\ root = NIL
    /\ n = 0
    /\ used = 0
    /\ st = "ok"
    /\ NoContainer

\* z = BinarySearchTree.Node(k, left=l, right=r); tree.tree_insert(z) on a
\* well-formed plain tree, l and r None or nodes the client holds.
ReTreeInsertNew ==
    /\ IsPlain
    /\ st = "ok"
    /\ n < MaxReInserts
    /\ PlainLinksConsistent(Cur)
    /\ used < MaxReNodes
    /\ \E k \in 1..MaxReKey, l \in (1..used) \cup {None}, r \in (1..used) \cup {None} :
         LET z == used + 1
             T0 == [Cur EXCEPT !.key[z] = k, !.left[z] = l, !.right[z] = r]
         IN  \E R \in {tree_insert(T0, z)} : Set(R)
    /\ used' = used + 1

\* tree.tree_insert(z) on a well-formed plain tree, z a node that was
\* deleted from the tree earlier.
ReTreeInsertOld ==
    /\ IsPlain
    /\ st = "ok"
    /\ n < MaxReInserts
    /\ PlainLinksConsistent(Cur)
    /\ \E z \in Deleted : \E R \in {tree_insert(Cur, z)} : Set(R)
    /\ UNCHANGED used

\* tree.tree_delete(z) for a node z of a well-formed plain tree.
ReTreeDelete ==
    /\ IsPlain
    /\ st = "ok"
    /\ PlainLinksConsistent(Cur)
    /\ \E z \in InTree(Cur) : \E R \in {tree_delete(Cur, z)} : Set(R)
    /\ UNCHANGED used

\* z = RedBlackTree.Node(k, left=l, right=l, color=c); tree.rb_insert(z) on
\* a well-formed red-black tree, l None or a node the client holds.
ReRbInsertNew ==
    /\ ~IsPlain
    /\ st = "ok"
    /\ n < MaxReInserts
    /\ LinksConsistent(Cur)
    /\ used < MaxReNodes
    /\ \E k \in 1..MaxReKey, l \in (1..used) \cup {None}, c \in {"RED", "BLACK"} :
         LET z == used + 1
             T0 == [Cur EXCEPT !.key[z] = k, !.left[z] = l, !.right[z] = l,
                               !.color[z] = c]
         IN  \E R \in {rb_insert(T0, z)} : Set(R)
    /\ used' = used + 1

\* tree.rb_insert(z) on a well-formed red-black tree, z a node that was
\* deleted from the tree earlier.
ReRbInsertOld ==
    /\ ~IsPlain
    /\ st = "ok"
    /\ n < MaxReInserts
    /\ LinksConsistent(Cur)
    /\ \E z \in Deleted : \E R \in {rb_insert(Cur, z)} : Set(R)
    /\ UNCHANGED used

\* tree.rb_delete(z) for a node z of a well-formed red-black tree.
ReRbDelete ==
    /\ ~IsPlain
    /\ st = "ok"
    /\ LinksConsistent(Cur)
    /\ \E z \in InTree(Cur) : \E R \in {rb_delete(Cur, z)} : Set(R)
    /\ UNCHANGED used

NextReinsert ==
    \/ ReTreeInsertNew \/ ReTreeInsertOld \/ ReTreeDelete
    \/ ReRbInsertNew \/ ReRbInsertOld \/ ReRbDelete

SpecReinsert == InitReinsert /\ [][NextReinsert]_vars

\* The step is an insert of z that returned: z was not in the tree and the
\* node count grew (no other operation of these runs changes _n).
IsInsertOf(z) ==
    /\ st = "ok" /\ st' = "ok"
    /\ n' = n + 1
    /\ z \in 1..used'
    /\ z \notin InTree(Cur)

\* C32 (as claimed): after tree_insert(z) or rb_insert(z) of a node z that
\* was not in the tree, whatever z's fields were before, z is in the tree
\* below the node its p refers to (or is the root) and z has no children:
\* on a plain tree both child fields are None when the call returns, on a
\* red-black tree both are the sentinel and z is RED when the fixup is
\* called.
C32_InsertedNodeIsLeaf ==
    [][\A z \in ReNodes : IsInsertOf(z) =>
        IF IsPlain
        THEN /\ z \in InTree(Cur')
             /\ left'[z] = None /\ right'[z] = None
             /\ IF p'[z] = None THEN root' = z
                ELSE left'[p'[z]] = z \/ right'[p'[z]] = z
        ELSE LET T0 == [Cur EXCEPT !.key[z] = key'[z]]
                 d == rb_insert_descend(T0, z, T0.root, NIL, {})
                 A == rb_insert_attach(T0, z, d.v)
             IN  /\ d.st = "ok"
                 /\ Cur' = [rb_insert_fixup(A, z) EXCEPT !.n = n + 1]
                 /\ A.left[z] = NIL /\ A.right[z] = NIL /\ A.color[z] = "RED"
                 /\ A.p[z] = d.v
                 /\ z \in InTree(Cur')
    ]_vars


\* The tree handed to rb_insert(z) in a step: a node constructed in the step
\* has the key the step gave it and the color c of its constructor, a node
\* constructed earlier is as it was left.
RbInsertArg(z, c) ==
    IF z = used + 1 THEN [Cur EXCEPT !.key[z] = key'[z], !.color[z] = c] ELSE Cur

\* The step is rb_insert(z) on a well-formed red-black tree, z constructed
\* in the step with color c or deleted from the tree earlier.
IsRbInsertOf(z, c) ==
    /\ ~IsPlain
    /\ st = "ok"
    /\ n < MaxReInserts
    /\ \/ z = used + 1 /\ used' = used + 1 /\ key'[z] \in 1..MaxReKey
       \/ z \in Deleted /\ used' = used
    /\ Cur' = rb_insert(RbInsertArg(z, c), z)
    /\ LinksConsistent(Cur)

\* C33: rb_insert(z) attaches z below the node y its descent ends at (as
\* the root when y is the sentinel), with both children of z the sentinel
\* and z RED when rb_insert_fixup is called, whatever color the constructor
\* was given and whatever z's fields were; the call returns with the fixup's
\* tree and _n larger by exactly one.
C33_RbInsertAttachesRedLeaf ==
    [][\A z \in ReNodes, c \in {"RED", "BLACK"} : IsRbInsertOf(z, c) =>
        LET T0 == RbInsertArg(z, c)
            d == rb_insert_descend(T0, z, T0.root, NIL, {})
            A == rb_insert_attach(T0, z, d.v)
        IN  /\ d.st = "ok"
            /\ A.left[z] = NIL /\ A.right[z] = NIL /\ A.color[z] = "RED"
            /\ A.p[z] = d.v
            /\ IF d.v = NIL THEN A.root = z
               ELSE A.root = root /\ (A.left[d.v] = z \/ A.right[d.v] = z)
            /\ \A x \in ReNodes \ {z} : A.color[x] = color[x]
            /\ st' = "ok"
            /\ Cur' = [rb_insert_fixup(A, z) EXCEPT !.n = n + 1]
            /\ n' = n + 1
    ]_vars

\* C33 witness: a red-black tree of two nodes after three rb_insert calls
\* (one node was deleted and inserted again): the root's only child is RED
\* with both children the sentinel.
C33_Witness ==
    /\ ~IsPlain
    /\ st = "ok"
    /\ used = 2 /\ n = 3
    /\ InTree(Cur) = {1, 2}
    /\ \E z \in {1, 2} :
         /\ z # root /\ p[z] = root
         /\ color[z] = "RED" /\ left[z] = NIL /\ right[z] = NIL


\* --------------------------------------------------- rb_delete, its fixup

\* The loop test the fixup is described with: x is not the root and x is
\* BLACK.
NotRootAndBlack(T, x) == x # T.root /\ T.color[x] = "BLACK"

\* At every evaluation of the loop test of _rb_delete_fixup started on tree
\* T and node x, the loop goes on exactly when x is not the root and BLACK.
\* A tree and node met twice end the inspection.
RECURSIVE FixupTestsAsDescribed(_, _, _)
FixupTestsAsDescribed(T, x, seen) ==
    IF delete_fixup_test(T, x) # NotRootAndBlack(T, x) THEN FALSE
    ELSE IF ~delete_fixup_test(T, x) \/ <<T, x>> \in seen THEN TRUE
    ELSE LET s == delete_fixup_body(T, x)
         IN  FixupTestsAsDescribed(s.T, s.x, seen \cup {<<T, x>>})

\* The step is rb_delete(z) on a tree with the red-black properties, z a
\* BLACK node with at most one child that is not the sentinel, so that x (that
\* child or the sentinel) takes z's place and _rb_delete_fixup(x) is called.
IsRbDeleteWithFixup(z) ==
    /\ IsRbDelete(z)
    /\ st = "ok"
    /\ color[z] = "BLACK"
    /\ isnil(left[z]) \/ isnil(right[z])
    /\ RedBlack(Cur)

\* The node x of such a step.
FixupArg(z) == IF isnil(left[z]) THEN right[z] ELSE left[z]

\* C34 (as claimed): _rb_delete_fixup(x) keeps iterating exactly while x is
\* not the root and x is BLACK: the body runs when x is the BLACK sentinel in
\* the place of a removed BLACK node that was not the root, and the loop
\* stops as soon as x is the root.
C34_FixupLoopsWhileNotRootAndBlack ==
    [][\A z \in RbNodes : IsRbDeleteWithFixup(z) =>
          FixupTestsAsDescribed(rb_transplant(Cur, z, FixupArg(z)), FixupArg(z), {})
    ]_vars


\* The leftmost node below x that is not the sentinel (x's links consistent).
RECURSIVE Leftmost(_, _)
Leftmost(T, x) == IF isnil(T.left[x]) THEN x ELSE Leftmost(T, T.left[x])

\* rb_delete(z) as it is described, z with two children that are not the
\* sentinel: y is the minimum of z's right subtree, y's color is recorded, x
\* is y's right child and moves into y's place (its p set to y when y is z's
\* child, to y's parent by the transplant otherwise), y takes z's place, z's
\* left subtree and z's color, and the fixup is handed x when y was BLACK.
DescribedDeleteTwoChildren(T, z) ==
    LET y == Leftmost(T, T.right[z])
        x == T.right[y]
        B == IF T.p[y] = z THEN [T EXCEPT !.p[x] = y]
             ELSE LET A1 == rb_transplant(T, y, x)
                  IN  [A1 EXCEPT !.right[y] = A1.right[z], !.p[A1.right[z]] = y]
        C == rb_transplant(B, z, y)
        D == [C EXCEPT !.left[y] = C.left[z], !.p[C.left[z]] = y,
                       !.color[y] = C.color[z]]
    IN  IF T.color[y] = "BLACK" THEN rb_delete_fixup(D, x) ELSE D

\* rb_delete(z) as it is described: x is the node that moves into the place
\* of y, the node removed or moved (y is z when z has a sentinel child).
DescribedDelete(T, z) ==
    IF isnil(T.left[z]) \/ isnil(T.right[z])
    THEN LET x == IF isnil(T.left[z]) THEN T.right[z] ELSE T.left[z]
             A == rb_transplant(T, z, x)
         IN  IF T.color[z] = "BLACK" THEN rb_delete_fixup(A, x) ELSE A
    ELSE DescribedDeleteTwoChildren(T, z)

\* C35 (as claimed): rb_delete(z) on a well-formed tree with the red-black
\* properties hands to the fixup the node x that moved into y's original
\* position: z.right when z has no left child, z.left when z has no right
\* child, and y.right when z has two children and y is the minimum of z's
\* right subtree (x.p then y's original parent, or y); y's color is
\* recorded before any change and y takes z's color.
C35_DeleteHandsOverReplacement ==
    [][\A z \in RbNodes :
          (IsRbDelete(z) /\ st = "ok" /\ RedBlack(Cur) /\ LinksConsistent(Cur))
              => Cur' = DescribedDelete(Cur, z)
    ]_vars


\* ------------------------------------------------------ rb_insert, fixup

\* The iteration of _rb_insert_fixup entered with tree T and z takes case 1:
\* z.p is a child of z.p.p and z's uncle is RED.
TakesCase1(T, z) ==
    \/ T.p[z] = T.left[T.p[T.p[z]]] /\ T.color[T.right[T.p[T.p[z]]]] = "RED"
    \/ /\ T.p[z] # T.left[T.p[T.p[z]]]
       /\ T.p[z] = T.right[T.p[T.p[z]]]
       /\ T.color[T.left[T.p[T.p[z]]]] = "RED"

\* The iteration takes case 2 or case 3: z.p is a child of z.p.p and z's
\* uncle is not RED.
TakesCase23(T, z) ==
    /\ ~TakesCase1(T, z)
    /\ T.p[z] = T.left[T.p[T.p[z]]] \/ T.p[z] = T.right[T.p[T.p[z]]]

\* The iterations of _rb_insert_fixup from tree T and z go as described: an
\* iteration of case 1 changes no link and moves z to z.p.p, an iteration of
\* case 2 or 3 leaves z.p BLACK, so the loop test fails after it.
RECURSIVE InsertFixupAsDescribed(_, _, _)
InsertFixupAsDescribed(T, z, seen) ==
    IF T.color[T.p[z]] # "RED" THEN TRUE
    ELSE IF <<T, z>> \in seen THEN FALSE
    ELSE LET s == insert_fixup_body(T, z)
         IN  IF TakesCase1(T, z)
             THEN /\ s.z = T.p[T.p[z]]
                  /\ s.T.left = T.left /\ s.T.right = T.right
                  /\ s.T.p = T.p /\ s.T.root = T.root
                  /\ InsertFixupAsDescribed(s.T, s.z, seen \cup {<<T, z>>})
             ELSE /\ TakesCase23(T, z)
                  /\ s.T.color[s.T.p[s.z]] = "BLACK"

\* The step is rb_insert(z) of the node constructed in the step, on a
\* well-formed tree with the red-black properties.
IsRbInsertRun(z) ==
    /\ z = used + 1
    /\ used' = used + 1
    /\ st = "ok"
    /\ RedBlack(Cur)
    /\ LinksConsistent(Cur)

\* The tree and z that rb_insert hands to the fixup in such a step.
FixupStart(z) ==
    LET T0 == [Cur EXCEPT !.key[z] = key'[z]]
    IN  rb_insert_attach(T0, z, rb_insert_descend(T0, z, T0.root, NIL, {}).v)

\* C36 (as claimed): in _rb_insert_fixup an iteration that takes case 2 or
\* case 3 is the last one, z's parent being BLACK after the case-3
\* recoloring and rotation, so one rb_insert performs at most two
\* rotations; an iteration of case 1 performs no rotation and moves z two
\* levels up.
C36_Case23EndsFixup ==
    [][\A z \in RbRunNodes :
          IsRbInsertRun(z) => InsertFixupAsDescribed(FixupStart(z), z, {})
    ]_vars


\* C37 (as claimed): after any sequence of rb_insert calls that returned,
\* every inserted node is reachable from the root by child links, every
\* child of a reachable node that is not the sentinel refers back to it as its
\* parent, and the root's parent is the sentinel.
C37_InsertKeepsNodesLinked ==
    st = "ok" =>
        /\ InTree(Cur) = 1..used
        /\ \A x \in InTree(Cur) :
             /\ left[x] # NIL => p[left[x]] = x
             /\ right[x] # NIL => p[right[x]] = x
        /\ p[root] = NIL


\* ------------------------------------------ well-formedness, plain tree

\* C38: after any sequence of tree_insert calls with fresh nodes and
\* tree_delete calls on nodes of the tree, the plain tree is well formed:
\* the root's parent is None, every child's p refers to the node holding it,
\* no node is reachable by two different paths (no node lies below itself
\* and the two subtrees of a node share no node), and no node of the tree
\* refers to a deleted node as child or parent.
C38_PlainTreeWellFormed ==
    /\ root # None => p[root] = None
    /\ \A x \in InTree(Cur) :
         /\ left[x] # None => p[left[x]] = x
         /\ right[x] # None => p[right[x]] = x
         /\ x \notin SubTree(Cur, left[x]) \cup SubTree(Cur, right[x])
         /\ SubTree(Cur, left[x]) \cap SubTree(Cur, right[x]) = {}
         /\ {left[x], right[x], p[x]} \cap Deleted = {}

\* C38 witness: four nodes were inserted and a node with two children was
\* deleted; it still refers to nodes of the tree as its children, and the
\* three nodes left form a tree with a root that has two children.
C38_Witness ==
    /\ used = 4
    /\ Cardinality(InTree(Cur)) = 3
    /\ left[root] # None /\ right[root] # None
    /\ \E z \in Deleted : left[z] \in InTree(Cur) /\ right[z] \in InTree(Cur)


\* --------------------------------------------------- rotations, inverses

\* Trees T and U have the same root and the same left, right and p links
\* at every node that bears a key.
SameLinks(T, U) ==
    /\ T.root = U.root
    /\ \A x \in RotNodes :
         T.left[x] = U.left[x] /\ T.right[x] = U.right[x] /\ T.p[x] = U.p[x]

\* C39 (as claimed): on a well-formed tree, for any node x whose right child
\* y is not the sentinel, _left_rotate(x) followed by _right_rotate(y)
\* restores the root and every link of the key-bearing nodes, wherever x
\* sits; likewise _right_rotate(x) followed by _left_rotate(y) for x whose
\* left child y is not the sentinel.
C39_RotationsAreInverse ==
    (st = "ok" /\ WellFormed(Cur)) =>
        \A x \in InTree(Cur) :
            /\ right[x] # NIL =>
                   SameLinks(right_rotate(left_rotate(Cur, x), right[x]), Cur)
            /\ left[x] # NIL =>
                   SameLinks(left_rotate(right_rotate(Cur, x), left[x]), Cur)


\* ------------------------------------------- the stack of the stack walk

\* Node objects a client constructs in a run that builds deep trees.
MaxDeepNodes == 20

DeepNodes == 1..MaxDeepNodes

\* A Stack(StackCap - 1) in the place of the walk's stack.
new_walk_stack_one_short ==
    [S |-> [i \in 0..(StackCap - 2) |-> None], n |-> StackCap - 1, top |-> -1]

\* s = Stack(20) of iterative_inorder_tree_walk.
new_walk_stack ==
    [S |-> [i \in 0..(StackCap - 1) |-> None], n |-> StackCap, top |-> -1]

\* How a walk ended with exception e: the keys yielded so far and the
\* largest number of entries the stack held.
WalkEnd(e, out, peak) == [st |-> e, v |-> out, peak |-> peak]

\* max(a, b).
Max(a, b) == IF a >= b THEN a ELSE b

\* The loop of iterative_inorder_tree_walk on the Stack s: while the stack
\* is not empty pop z; when z is true yield z.key, push z.right and push
\* z.left.  peak is the largest len(s) so far.
RECURSIVE stack_walk_loop(_, _, _, _)
stack_walk_loop(T, s, out, peak) ==
    IF stack_empty(s) THEN WalkEnd("ok", out, peak)
    ELSE LET r == Stack_pop(s)
         IN  IF r.st # "ok" THEN WalkEnd(r.st, out, peak)
             ELSE IF ~Truthy(r.v) THEN stack_walk_loop(T, r.s, out, peak)
             ELSE LET out1 == Append(out, T.key[r.v])
                      a == Stack_push(r.s, T.right[r.v])
                      b == Stack_push(a.s, T.left[r.v])
                  IN  IF a.st # "ok" THEN WalkEnd(a.st, out1, peak)
                      ELSE IF b.st # "ok" THEN WalkEnd(b.st, out1, Max(peak, Stack_len(a.s)))
                      ELSE stack_walk_loop(T, b.s, out1, Max(peak, Stack_len(b.s)))

\* BinaryTree.iterative_inorder_tree_walk(x) with its Stack: s = Stack(20),
\* s.push(x), then the loop.
stack_walk(T, x) ==
    LET a == Stack_push(new_walk_stack, x)
    IN  IF a.st # "ok" THEN WalkEnd(a.st, <<>>, 0)
        ELSE stack_walk_loop(T, a.s, <<>>, Stack_len(a.s))

\* The state after BinarySearchTree(), with room for MaxDeepNodes nodes.
InitDeep ==
    /\ key = [x \in DeepNodes |-> None]
    /\ left = [x \in DeepNodes |-> None]
    /\ right = [x \in DeepNodes |-> None]
    /\ p = [x \in DeepNodes |-> None]
    /\ color = <<>>
    /\ root = None
    /\ n = 0
    /\ used = 0
    /\ st = "ok"
    /\ NoContainer

\* z = BinarySearchTree.Node(k); tree.tree_insert(z), z a fresh object: the
\* first key is MaxDeepNodes, then keys below every key of the tree (the
\* left chain of the root grows), then keys above every key (the right chain
\* grows).
TreeInsertDeep ==
    /\ used < MaxDeepNodes
    /\ \E k \in 1..(2 * MaxDeepNodes) :
         /\ \/ used = 0 /\ k = MaxDeepNodes
            \/ /\ used > 0 /\ right[root] = None
               /\ k = MaxDeepNodes - used
            \/ /\ used > 0
               /\ k = 1 + CHOOSE m \in {key[x] : x \in 1..used} :
                            \A x \in 1..used : key[x] <= m
         /\ LET z == used + 1
                T0 == [Cur EXCEPT !.key[z] = k]
            IN  \E R \in {tree_insert(T0, z)} : Set(R)
    /\ used' = used + 1

SpecDeep == InitDeep /\ [][TreeInsertDeep]_vars

\* C40: on a plain tree, during iterative_inorder_tree_walk(x) the stack
\* never holds more than height(x) + 2 entries (height counted in edges,
\* absent children being pushed too) and is never popped when empty; when
\* the height of x is at most StackCap - 2 = 18 the walk ends without
\* StackOverflowError having yielded the key of every node below x exactly
\* once.
C40_WalkStackFits ==
    \A x \in InTree(Cur) :
        LET r == stack_walk(Cur, x)
            h == LongestPath(Cur, x, {})
        IN  /\ r.peak <= h + 2
            /\ r.st # "StackUnderflowError"
            /\ h <= StackCap - 2 =>
                 /\ r.st = "ok"
                 /\ Len(r.v) = Cardinality(SubTree(Cur, x))
                 /\ \A y \in SubTree(Cur, x) : Count(r.v, key[y]) = 1

\* C40 witness: a tree of height 18, the root with a left chain of 18
\* nodes: the walk from the root ends normally and its stack held 20
\* entries, all of its capacity.
C40_Witness ==
    /\ used = 19
    /\ right[root] = None
    /\ LongestPath(Cur, root, {}) = 18
    /\ stack_walk(Cur, root).st = "ok"
    /\ stack_walk(Cur, root).peak = StackCap

=============================================================================
